---- MODULE Spec2Model ----
(***************************************************************************)
(* Verification model of go-fancy-login: the resolution of a selected AWS  *)
(* profile into a Kubernetes context, an ECR login directive and a k9s     *)
(* launch, with the wildcard matcher and the namespace derivation it uses. *)
(*                                                                         *)
(* Strings that the code takes apart (profile names, wildcard patterns,    *)
(* regular expressions, namespaces) are sequences of one-character         *)
(* strings.  Strings that the code only compares or passes on (context     *)
(* names, regions) are atomic strings, "" being the empty string.          *)
(***************************************************************************)
EXTENDS Naturals, Integers, Sequences, FiniteSets, TLC

----------------------------------------------------------------------------
(* Bounds of the model                                                     *)

\* longest wildcard pattern given to MatchesPattern in SpecMatch
MaxPatLen == 3

\* longest candidate string given to MatchesPattern in SpecMatch
MaxCandLen == 3

\* longest free prefix of a profile name given to GetNamespaceFromProfile
MaxPrefixLen == 3

\* longest legacy rule list (.fancy-contexts.conf) of a login run
MaxRules == 2

----------------------------------------------------------------------------
(* Strings as sequences of characters                                      *)

\* all sequences over S of length at most n
RECURSIVE SeqsUpTo(_, _)
SeqsUpTo(S, n) ==
    IF n = 0 THEN {<<>>}
    ELSE LET shorter == SeqsUpTo(S, n - 1)
         IN  shorter \cup {Append(s, c) : s \in {t \in shorter : Len(t) = n - 1}, c \in S}

UpperLetters ==
    <<"A","B","C","D","E","F","G","H","I","J","K","L","M",
      "N","O","P","Q","R","S","T","U","V","W","X","Y","Z">>

LowerLetters ==
    <<"a","b","c","d","e","f","g","h","i","j","k","l","m",
      "n","o","p","q","r","s","t","u","v","w","x","y","z">>

\* the character class [A-Z]
IsUpper(c) == \E i \in 1..Len(UpperLetters) : UpperLetters[i] = c

\* strings.ToLower on one character
LowerChar(c) ==
    IF IsUpper(c)
    THEN LowerLetters[CHOOSE i \in 1..Len(UpperLetters) : UpperLetters[i] = c]
    ELSE c

\* strings.ToLower
ToLower(s) == [i \in 1..Len(s) |-> LowerChar(s[i])]

\* strings.ReplaceAll(s, old, new) for a one-character old
RECURSIVE ReplaceAll(_, _, _)
ReplaceAll(s, old, new) ==
    IF s = <<>> THEN <<>>
    ELSE (IF Head(s) = old THEN new ELSE <<Head(s)>>) \o ReplaceAll(Tail(s), old, new)

\* s[from..] (1-based, empty when from > Len(s))
Suffix(s, from) == SubSeq(s, from, Len(s))

----------------------------------------------------------------------------
(* regexp: the fragment of Go's RE2 syntax that the translated patterns of *)
(* the model can contain: literals, `.`, a postfix `*`, the anchors `^`    *)
(* and `$`, and an opening parenthesis (never closed: a syntax error).     *)

\* regexp.Compile succeeds: no group is left open and every `*` has an
\* operand that is not itself a repetition
RegexpCompiles(re) ==
    /\ \A i \in 1..Len(re) : re[i] # "("
    /\ \A i \in 1..Len(re) : re[i] = "*" => (i > 1 /\ re[i-1] # "*")

\* one regexp atom against one character (`.` without the s flag: any
\* character but a newline, which no string of the model contains)
AtomMatches(a, c) == a = "." \/ a = c

\* the compiled regexp re matches s from position pos on (pos is 1-based;
\* the match may end anywhere, as regexp.MatchString searches)
RECURSIVE MatchHere(_, _, _)
MatchHere(re, s, pos) ==
    IF re = <<>> THEN TRUE
    ELSE IF Head(re) = "^" THEN pos = 1 /\ MatchHere(Tail(re), s, pos)
    ELSE IF Head(re) = "$" THEN pos = Len(s) + 1 /\ MatchHere(Tail(re), s, pos)
    ELSE IF Len(re) >= 2 /\ re[2] = "*"
         THEN \E k \in 0..(Len(s) + 1 - pos) :
                 /\ \A j \in pos..(pos + k - 1) : AtomMatches(Head(re), s[j])
                 /\ MatchHere(Suffix(re, 3), s, pos + k)
    ELSE /\ pos <= Len(s)
         /\ AtomMatches(Head(re), s[pos])
         /\ MatchHere(Tail(re), s, pos + 1)

\* regexp.MatchString(re, s): (matched, err)
RegexpMatchString(re, s) ==
    IF ~RegexpCompiles(re)
    THEN [matched |-> FALSE, err |-> "syntax"]
    ELSE [matched |-> \E start \in 1..(Len(s) + 1) : MatchHere(re, s, start),
          err |-> "nil"]

\* the regular expression MatchesPattern builds from a wildcard pattern
WildcardToRegex(pattern) ==
    <<"^">> \o ReplaceAll(ReplaceAll(pattern, "*", <<".", "*">>), "?", <<".">>) \o <<"$">>

\* MatchesPattern with the error of regexp.MatchString taken for a match
MatchesPatternErrIsMatch(profile, pattern) ==
    LET r == RegexpMatchString(WildcardToRegex(pattern), profile)
    IN  r.matched \/ r.err # "nil"

\* MatchesPattern(profile, pattern): the error is dropped, matched is returned
MatchesPattern(profile, pattern) ==
    RegexpMatchString(WildcardToRegex(pattern), profile).matched

----------------------------------------------------------------------------
(* GetNamespaceFromProfile                                                  *)

DevengSuffix == <<"_", "D", "E", "V", "E", "N", "G">>

\* s[from..to] is a non-empty run of [A-Z]
UpperRun(s, from, to) ==
    /\ from <= to
    /\ \A k \in from..to : IsUpper(s[k])

\* the same expression without the `$` anchor: any text may follow DEVENG
DevengSubmatchOpenEnd(profile) ==
    LET n == Len(profile)
        splits == {ij \in (1..n) \X (1..n) :
                     /\ UpperRun(profile, 1, ij[1] - 1)
                     /\ profile[ij[1]] = "_"
                     /\ UpperRun(profile, ij[1] + 1, ij[2] - 1)
                     /\ ij[2] + Len(DevengSuffix) - 1 <= n
                     /\ SubSeq(profile, ij[2], ij[2] + Len(DevengSuffix) - 1) = DevengSuffix}
    IN  IF splits = {} THEN <<>>
        ELSE LET ij == CHOOSE x \in splits : TRUE
             IN  <<profile, SubSeq(profile, 1, ij[1] - 1),
                   SubSeq(profile, ij[1] + 1, ij[2] - 1)>>

\* regexp `^([A-Z]+)_([A-Z]+)_DEVENG$`, FindStringSubmatch: the whole match
\* and the two groups, or the empty list when the profile does not match
DevengSubmatch(profile) ==
    LET n == Len(profile)
        splits == {ij \in (1..n) \X (1..n) :
                     /\ UpperRun(profile, 1, ij[1] - 1)
                     /\ profile[ij[1]] = "_"
                     /\ UpperRun(profile, ij[1] + 1, ij[2] - 1)
                     /\ Suffix(profile, ij[2]) = DevengSuffix}
    IN  IF splits = {} THEN <<>>
        ELSE LET ij == CHOOSE x \in splits : TRUE
             IN  <<profile, SubSeq(profile, 1, ij[1] - 1),
                   SubSeq(profile, ij[1] + 1, ij[2] - 1)>>

\* GetNamespaceFromProfile(profile, namespaceMappings): (namespace, err)
GetNamespaceFromProfile(profile, namespaceMappings) ==
    LET matches == DevengSubmatch(profile)
    IN  IF Len(matches) # 3
        THEN [namespace |-> <<>>, err |-> "does not match DEVENG pattern"]
        ELSE LET projectCode == matches[2]
                 environment == ToLower(matches[3])
             IN  IF projectCode \notin DOMAIN namespaceMappings
                 THEN [namespace |-> <<>>, err |-> "project code not found"]
                 ELSE [namespace |-> environment \o <<"-">> \o namespaceMappings[projectCode],
                       err |-> "nil"]

----------------------------------------------------------------------------
(* ConfigStore accessors (FancyConfig)                                      *)

\* GetProfileConfig(profile): (config, err)
GetProfileConfig(fc, profile) ==
    IF profile \in DOMAIN fc.ProfileConfigs
    THEN [config |-> fc.ProfileConfigs[profile], err |-> "nil"]
    ELSE [config |-> <<>>, err |-> "no configuration found for profile"]

\* ShouldPerformECRLogin that asks for the login of every unknown profile
ShouldPerformECRLoginUnknownYes(fc, profile) ==
    LET r == GetProfileConfig(fc, profile)
    IN  IF r.err # "nil" THEN TRUE ELSE r.config.ECRLogin

\* ShouldPerformECRLogin(profile)
ShouldPerformECRLogin(fc, profile) ==
    LET r == GetProfileConfig(fc, profile)
    IN  IF r.err # "nil" THEN FALSE ELSE r.config.ECRLogin

\* ShouldAutoLaunchK9s(profile)
ShouldAutoLaunchK9s(fc, profile) ==
    LET r == GetProfileConfig(fc, profile)
    IN  IF r.err # "nil" THEN FALSE ELSE r.config.K9sAutoLaunch

\* GetK8sContextForProfile that never finds the configured context
GetK8sContextForProfileNone(fc, profile) == ""

\* GetK8sContextForProfile(profile)
GetK8sContextForProfile(fc, profile) ==
    LET r == GetProfileConfig(fc, profile)
    IN  IF r.err # "nil" THEN "" ELSE r.config.K8sContext

\* GetECRRegionForProfile that ignores the profile's own region
GetECRRegionForProfileDefaultOnly(fc, profile) == fc.Settings.DefaultRegion

\* GetECRRegionForProfile(profile)
GetECRRegionForProfile(fc, profile) ==
    LET r == GetProfileConfig(fc, profile)
    IN  IF r.err # "nil" THEN fc.Settings.DefaultRegion
        ELSE IF r.config.ECRRegion = "" THEN fc.Settings.DefaultRegion
        ELSE r.config.ECRRegion

----------------------------------------------------------------------------
(* State                                                                    *)

VARIABLES
    pc,               \* position of the run: the handler main calls next
    fancyConfig,      \* the FancyConfig the managers were constructed with
    config,           \* config.Config: the flags and environment defaults
    environ,          \* the environment variables the handlers read
    contextFile,      \* .fancy-contexts.conf as parseContextFile returns it
    namespaceFile,    \* .fancy-namespaces.conf as parseNamespaceFile returns it
    awsProfile,       \* the profile selected for the run
    calls,            \* the calls to collaborators and the returns, in order
    k8sContextResult, \* main's k8sContextResult: the context summary
    args,             \* arguments of a function applied on its own
    result,           \* what that function returned
    cwd,              \* the working directory of the process
    files,            \* per directory, the content of its .fancy-config.yaml
    wizard,           \* the ConfigWizard: config, awsProfiles, k8sContexts, addNewOnly
    existingConfig,   \* what Run's LoadFancyConfig returned
    spinner,          \* the Spinner: index, running
    goroutine,        \* position of the animation goroutine
    terminal          \* what was written to the terminal, in order

vars == <<pc, fancyConfig, config, environ, contextFile, namespaceFile,
          awsProfile, calls, k8sContextResult, args, result,
          cwd, files, wizard, existingConfig, spinner, goroutine, terminal>>

\* the variables of the configuration document and of the wizard
configVars == <<cwd, files, wizard, existingConfig>>

\* the variables of a spinner
spinnerVars == <<spinner, goroutine, terminal>>

\* the variables of a login run
runVars == <<fancyConfig, config, environ, contextFile, namespaceFile,
             awsProfile, calls, k8sContextResult>>

\* an entry of the call log: who called, what, with what argument, and
\* whether the call succeeded
Call(by, op, arg, ok) == [by |-> by, op |-> op, arg |-> arg, ok |-> ok]

\* the entry a handler leaves when it returns err
Return(by, err) == Call(by, "return", err, err = "nil")

\* Logger.Die(message): the message, then os.Exit(1)
Die(by, message) == Call(by, "os.Exit", message, FALSE)

\* a spinner that is started in verbose mode too
SpinnerStartAlways(cfg, by) == <<Call(by, "Spinner.Start", "", TRUE)>>

\* "if !aws.config.FancyVerbose { spinner = utils.NewSpinner(...);
\* spinner.Start() }": the spinner the handler holds, none in verbose mode
SpinnerStart(cfg, by) ==
    IF ~cfg.FancyVerbose THEN <<Call(by, "Spinner.Start", "", TRUE)>> ELSE <<>>

\* "if spinner != nil { spinner.Stop() }"
SpinnerStop(started, by) ==
    IF started # <<>> THEN <<Call(by, "Spinner.Stop", "", TRUE)>> ELSE <<>>

\* main with the registry login ahead of the AWS login
MainOrderECRFirst ==
    <<"main: SelectAWSProfile", "main: HandleECRLogin", "main: HandleAWSLogin",
      "main: SelectKubernetesContext", "main: GetAccountID", "main: summary",
      "main: HandleK9sLaunch", "main: completed">>

\* the steps of main's login run, in the order of its statements
MainOrder ==
    <<"main: SelectAWSProfile", "main: HandleAWSLogin",
      "main: SelectKubernetesContext", "main: GetAccountID",
      "main: HandleECRLogin", "main: summary", "main: HandleK9sLaunch",
      "main: completed">>

\* the position after a step that did not end the process: the next
\* statement of main in a whole run; in a run of one part of main, the next
\* handler of that part
Following(position) ==
    IF \E i \in 1..(Len(MainOrder) - 1) : MainOrder[i] = position
    THEN MainOrder[(CHOOSE i \in 1..(Len(MainOrder) - 1) : MainOrder[i] = position) + 1]
    ELSE IF position = "SelectKubernetesContext" THEN "HandleK9sLaunch"
    ELSE IF position = "GetAccountID" THEN "HandleECRLogin"
    ELSE "done"

\* DefaultFancyConfig()
DefaultFancyConfig ==
    [ProfileConfigs |-> <<>>,
     Settings |-> [DefaultRegion |-> "eu-central-1",
                   ConfigWizardRun |-> FALSE,
                   PreferLocalConfigs |-> TRUE]]

\* no summary yet (the zero value of main's variable)
NoSummary == [kind |-> "unset", context |-> "", hasNamespace |-> FALSE, namespace |-> <<>>]

\* a state in which no login run takes place
NoRun ==
    /\ fancyConfig = DefaultFancyConfig
    /\ config = [UseK9S |-> FALSE, DefaultRegion |-> "eu-central-1",
                 FancyVerbose |-> FALSE, ForceAWSLogin |-> FALSE]
    /\ environ = [AWS_REGION |-> ""]
    /\ contextFile = [ok |-> FALSE, mappings |-> <<>>]
    /\ namespaceFile = [ok |-> FALSE, mappings |-> <<>>]
    /\ awsProfile = <<>>
    /\ calls = <<>>
    /\ k8sContextResult = NoSummary

\* a state in which no configuration document is read or written and no
\* wizard runs
NoWizard ==
    /\ cwd = "home"
    /\ files = <<>>
    /\ wizard = <<>>
    /\ existingConfig = <<>>

\* a state in which no spinner exists
NoSpinner ==
    /\ spinner = <<>>
    /\ goroutine = "none"
    /\ terminal = <<>>

----------------------------------------------------------------------------
(* SpecMatch: MatchesPattern applied to bounded inputs                      *)

\* characters of the wildcard patterns
PatternChars == {"A", "B", "*", "?", ".", "("}

\* characters of the candidate strings
CandidateChars == {"A", "B"}

StarProdStar == <<"*", "_", "P", "R", "O", "D", "_", "*">>

AcmeProdAdmin == <<"A","C","M","E","_","P","R","O","D","_","A","D","M","I","N">>

AcmeProductionAdmin ==
    <<"A","C","M","E","_","P","R","O","D","U","C","T","I","O","N","_","A","D","M","I","N">>

Patterns == SeqsUpTo(PatternChars, MaxPatLen) \cup {StarProdStar}

Candidates == SeqsUpTo(CandidateChars, MaxCandLen) \cup {AcmeProdAdmin, AcmeProductionAdmin}

InitMatch ==
    /\ pc = "MatchesPattern"
    /\ args \in [profile : Candidates, pattern : Patterns]
    /\ result = <<>>
    /\ NoWizard
    /\ NoSpinner
    /\ NoRun

CallMatchesPattern ==
    /\ pc = "MatchesPattern"
    /\ result' = [matched |-> MatchesPattern(args.profile, args.pattern)]
    /\ pc' = "returned"
    /\ UNCHANGED <<args, runVars, configVars, spinnerVars>>

NextMatch == CallMatchesPattern

SpecMatch == InitMatch /\ [][NextMatch]_vars

----------------------------------------------------------------------------
(* SpecNamespace: GetNamespaceFromProfile applied to bounded inputs         *)

\* characters of the free prefix of a profile name
PrefixChars == {"A", "B", "_", "a", "1"}

\* what follows the free prefix
ProfileEndings ==
    {<<>>, DevengSuffix, Tail(DevengSuffix), DevengSuffix \o <<"A">>,
     DevengSuffix \o <<"_">>, <<"_", "d", "e", "v", "e", "n", "g">>}

OvTestDeveng == <<"O", "V", "_", "T", "E", "S", "T">> \o DevengSuffix

OvTest == <<"O", "V", "_", "T", "E", "S", "T">>

Overviews == <<"o", "v", "e", "r", "v", "i", "e", "w", "s">>

TestOverviews == <<"t", "e", "s", "t", "-">> \o Overviews

ProfileNames ==
    {p \o e : p \in SeqsUpTo(PrefixChars, MaxPrefixLen), e \in ProfileEndings}
        \cup {OvTestDeveng, OvTest}

\* project codes and namespace fragments of the tables
ProjectCodes == {<<"A">>, <<"O", "V">>}

ProjectNames == {<<>>, Overviews}

NamespaceTables == UNION {[codes -> ProjectNames] : codes \in SUBSET ProjectCodes}

InitNamespace ==
    /\ pc = "GetNamespaceFromProfile"
    /\ args \in [profile : ProfileNames, namespaceMappings : NamespaceTables]
    /\ result = <<>>
    /\ NoWizard
    /\ NoSpinner
    /\ NoRun

CallGetNamespaceFromProfile ==
    /\ pc = "GetNamespaceFromProfile"
    /\ result' = GetNamespaceFromProfile(args.profile, args.namespaceMappings)
    /\ pc' = "returned"
    /\ UNCHANGED <<args, runVars, configVars, spinnerVars>>

NextNamespace == CallGetNamespaceFromProfile

SpecNamespace == InitNamespace /\ [][NextNamespace]_vars

----------------------------------------------------------------------------
(* K8sManager                                                               *)

\* LoadContextMappings as SelectKubernetesContext uses it: on an error the
\* list is replaced by the empty list
LoadContextMappings(file) == IF file.ok THEN file.mappings ELSE <<>>

\* the rule loop of SelectKubernetesContext that goes through the list from
\* its end: the index of the last rule at or before i that matches, 0 if none
RECURSIVE ScanMappingsBackwards(_, _, _)
ScanMappingsBackwards(mappings, profile, i) ==
    IF i < 1 \/ i > Len(mappings) THEN 0
    ELSE LET later == ScanMappingsBackwards(mappings, profile, i + 1)
         IN  IF later # 0 THEN later
             ELSE IF MatchesPattern(profile, mappings[i].Pattern) THEN i ELSE 0

\* the rule loop of SelectKubernetesContext: the index of the first rule at
\* or after i whose pattern matches the profile, 0 if there is none
RECURSIVE ScanMappings(_, _, _)
ScanMappings(mappings, profile, i) ==
    IF i > Len(mappings) THEN 0
    ELSE IF MatchesPattern(profile, mappings[i].Pattern) THEN i
    ELSE ScanMappings(mappings, profile, i + 1)

\* the MatchesPattern calls of the rule loop that stops at rule idx
\* (idx = 0: the loop ran through the whole list)
PatternCalls(mappings, profile, idx) ==
    [i \in 1..(IF idx = 0 THEN Len(mappings) ELSE idx) |->
        Call("SelectKubernetesContext", "MatchesPattern", mappings[i].Pattern,
             MatchesPattern(profile, mappings[i].Pattern))]

\* a summary that needs the namespace: without one no context is reported
formatContextSummaryNamespaceNeeded(context, profile, nsFile) ==
    LET namespaceMappings == IF nsFile.ok THEN nsFile.mappings ELSE <<>>
        ns == GetNamespaceFromProfile(profile, namespaceMappings)
    IN  IF ns.err = "nil"
        THEN [kind |-> "context", context |-> context,
              hasNamespace |-> TRUE, namespace |-> ns.namespace]
        ELSE [kind |-> "none selected", context |-> "",
              hasNamespace |-> FALSE, namespace |-> <<>>]

\* formatContextSummary(context, awsProfile): the summary line, with the
\* namespace when it can be derived
formatContextSummary(context, profile, nsFile) ==
    LET namespaceMappings == IF nsFile.ok THEN nsFile.mappings ELSE <<>>
        ns == GetNamespaceFromProfile(profile, namespaceMappings)
    IN  IF ns.err = "nil"
        THEN [kind |-> "context", context |-> context,
              hasNamespace |-> TRUE, namespace |-> ns.namespace]
        ELSE [kind |-> "context", context |-> context,
              hasNamespace |-> FALSE, namespace |-> <<>>]

\* "(not configured for this profile)"
NotConfiguredSummary ==
    [kind |-> "not configured", context |-> "", hasNamespace |-> FALSE, namespace |-> <<>>]

\* "(none selected)"
NoneSelectedSummary ==
    [kind |-> "none selected", context |-> "", hasNamespace |-> FALSE, namespace |-> <<>>]

\* getCurrentContextSummary that takes a failed query for an answer
getCurrentContextSummaryErrIgnored(current, profile, nsFile) ==
    formatContextSummary(current, profile, nsFile)

\* getCurrentContextSummary(awsProfile), the query of the current context
\* answering current, or failing (current = "")
getCurrentContextSummary(current, profile, nsFile) ==
    IF current = "" THEN NoneSelectedSummary
    ELSE formatContextSummary(current, profile, nsFile)

\* the profile-exists test without the skip: every profile goes on to the
\* legacy rules
SkipsContextSelectionNever(fc, profile) == FALSE

\* SelectKubernetesContext: "If profile exists but has empty k8s_context,
\* skip Kubernetes context switching"
SkipsContextSelection(fc, profile) == GetProfileConfig(fc, profile).err = "nil"

\* the contexts of the kubeconfig
KubeContexts == {"ctx-a", "ctx-c"}

\* the ways selectContextWithFzf can end.  fzf prints one of the lines it
\* was given and the list is not empty, so a selection is a context name.
FzfOutcomes ==
    {[err |-> e, context |-> ""] :
        e \in {"failed to get contexts", "no contexts available",
               "context selection timed out after 60 seconds", "fzf exited non-zero"}}
    \cup {[err |-> "nil", context |-> c] : c \in KubeContexts}

\* the calls selectContextWithFzf makes for an outcome; the entry of fzf
\* holds the selection, or how the selection failed
FzfCalls(o) ==
    IF o.err = "failed to get contexts"
    THEN <<Call("selectContextWithFzf", "kubectl config get-contexts", "", FALSE)>>
    ELSE IF o.err = "no contexts available"
    THEN <<Call("selectContextWithFzf", "kubectl config get-contexts", "", TRUE)>>
    ELSE <<Call("selectContextWithFzf", "kubectl config get-contexts", "", TRUE),
           Call("selectContextWithFzf", "fzf",
                IF o.err = "nil" THEN o.context ELSE o.err, o.err = "nil")>>

\* switchK8sContext falling back to no context when the cluster CLI fails
SwitchCallOrNone(context, ok) ==
    Call("switchK8sContext", "kubectl config use-context",
         IF ok THEN context ELSE "", ok)

\* switchK8sContext(context), the cluster CLI succeeding or not
SwitchCall(context, ok) ==
    Call("switchK8sContext", "kubectl config use-context", context, ok)

\* SelectKubernetesContext(awsProfile)
SelectKubernetesContext ==
    /\ pc \in {"SelectKubernetesContext", "main: SelectKubernetesContext"}
    /\ LET configuredContext == GetK8sContextForProfile(fancyConfig, awsProfile)
           mappings == LoadContextMappings(contextFile)
           idx == ScanMappings(mappings, awsProfile, 1)
           loadCall == Call("SelectKubernetesContext", "LoadContextMappings", "", contextFile.ok)
       IN  IF configuredContext # ""
           THEN \E switched \in BOOLEAN :
                   /\ calls' = calls \o <<SwitchCall(configuredContext, switched),
                                          Return("SelectKubernetesContext", "nil")>>
                   /\ k8sContextResult' =
                          formatContextSummary(configuredContext, awsProfile, namespaceFile)
           ELSE IF SkipsContextSelection(fancyConfig, awsProfile)
           THEN /\ calls' = calls \o <<Return("SelectKubernetesContext", "nil")>>
                /\ k8sContextResult' = NotConfiguredSummary
           ELSE IF idx # 0
           THEN \E switched \in BOOLEAN :
                   /\ calls' = calls \o <<loadCall>> \o PatternCalls(mappings, awsProfile, idx)
                                  \o <<SwitchCall(mappings[idx].Context, switched),
                                       Return("SelectKubernetesContext", "nil")>>
                   /\ k8sContextResult' =
                          formatContextSummary(mappings[idx].Context, awsProfile, namespaceFile)
           ELSE \E o \in FzfOutcomes :
                   IF o.err # "nil"
                   THEN \* getCurrentContextSummary
                        \E current \in KubeContexts \cup {""} :
                           /\ calls' = calls \o <<loadCall>>
                                          \o PatternCalls(mappings, awsProfile, 0) \o FzfCalls(o)
                                          \o <<Call("getCurrentContextSummary",
                                                    "kubectl config current-context",
                                                    current, current # ""),
                                               Return("SelectKubernetesContext", "nil")>>
                           /\ k8sContextResult' =
                                  getCurrentContextSummary(current, awsProfile, namespaceFile)
                   ELSE \E switched \in BOOLEAN :
                           /\ calls' = calls \o <<loadCall>>
                                          \o PatternCalls(mappings, awsProfile, 0) \o FzfCalls(o)
                                          \o <<SwitchCall(o.context, switched),
                                               Return("SelectKubernetesContext", "nil")>>
                           /\ k8sContextResult' =
                                  formatContextSummary(o.context, awsProfile, namespaceFile)
    /\ pc' = Following(pc)
    /\ UNCHANGED <<fancyConfig, config, environ, contextFile, namespaceFile,
                   awsProfile, args, result,
                   configVars, spinnerVars>>

\* the calls and the error of launchK9sWithNamespace(awsProfile), k9s
\* running to a normal end or not
launchK9sWithNamespace(profile, nsFile, ran) ==
    IF ~nsFile.ok
    THEN [calls |-> <<>>, err |-> "failed to load namespace mappings"]
    ELSE LET ns == GetNamespaceFromProfile(profile, nsFile.mappings)
         IN  IF ns.err # "nil"
             THEN [calls |-> <<>>, err |-> ns.err]
             ELSE [calls |-> <<Call("launchK9sWithNamespace", "k9s", ns.namespace, ran)>>,
                   err |-> IF ran THEN "nil" ELSE "k9s exited non-zero"]

\* the answers to "Do you want to open k9s? (y/n)": Scanln failing (empty
\* line, end of input), "y", or anything else
K9sAnswers == {"scan error", "y", "n"}

\* HandleK9sLaunch(awsProfile)
HandleK9sLaunch ==
    /\ pc \in {"HandleK9sLaunch", "main: HandleK9sLaunch"}
    /\ IF ~ShouldAutoLaunchK9s(fancyConfig, awsProfile)
       THEN calls' = calls \o <<Return("HandleK9sLaunch", "nil")>>
       ELSE \E ran \in BOOLEAN :
               LET launch == launchK9sWithNamespace(awsProfile, namespaceFile, ran)
                   prompt(ok) == Call("HandleK9sLaunch", "prompt", "", ok)
               IN  IF config.UseK9S
                   THEN calls' = calls \o launch.calls \o <<Return("HandleK9sLaunch", launch.err)>>
                   ELSE \E answer \in K9sAnswers :
                           calls' = calls \o
                               (IF answer = "scan error"
                                THEN <<prompt(FALSE), Return("HandleK9sLaunch", "scan error")>>
                                ELSE IF answer = "y"
                                THEN <<prompt(TRUE)>> \o launch.calls
                                         \o <<Return("HandleK9sLaunch", launch.err)>>
                                ELSE <<prompt(TRUE), Return("HandleK9sLaunch", "nil")>>)
    /\ pc' = Following(pc)
    /\ UNCHANGED <<fancyConfig, config, environ, contextFile, namespaceFile,
                   awsProfile, k8sContextResult, args, result,
                   configVars, spinnerVars>>

----------------------------------------------------------------------------
(* Spec: the Kubernetes part of a login run, for a selected profile         *)

\* profile names of the runs: one of the DEVENG shape, one not
DevProfile == <<"A", "_", "B">> \o DevengSuffix

AdminProfile == <<"A", "B">>

RunProfiles == {DevProfile, AdminProfile}

\* the per-profile settings the Kubernetes handlers read; the ECR settings,
\* which they never read, are left at their zero values
K8sProfileConfigs ==
    [ECRLogin : {FALSE}, ECRRegion : {""},
     K8sContext : {"", "ctx-c"}, K9sAutoLaunch : BOOLEAN]

\* the stores over a set of per-profile settings
Stores(configs) == UNION {[ps -> configs] : ps \in SUBSET RunProfiles}

\* legacy rules: a pattern that fits AdminProfile only, one that fits
\* DevProfile only, and one that does not translate to a regular expression
RulePatterns == {<<"A", "?">>, <<"*", "G">>, <<"(", "*">>}

RuleContexts == {"ctx-a", "ctx-b"}

ContextFiles ==
    {[ok |-> FALSE, mappings |-> <<>>]}
    \cup {[ok |-> TRUE, mappings |-> m] :
             m \in SeqsUpTo([Pattern : RulePatterns, Context : RuleContexts], MaxRules)}

NamespaceFiles ==
    {[ok |-> FALSE, mappings |-> <<>>],
     [ok |-> TRUE, mappings |-> <<>>],
     [ok |-> TRUE, mappings |-> (<<"A">> :> <<"p">>)]}

Init ==
    /\ pc = "SelectKubernetesContext"
    /\ fancyConfig \in [ProfileConfigs : Stores(K8sProfileConfigs),
                        Settings : [DefaultRegion : {"eu-central-1"}]]
    /\ config \in [UseK9S : BOOLEAN, DefaultRegion : {"eu-central-1"},
                   FancyVerbose : {FALSE}, ForceAWSLogin : {FALSE}]
    /\ environ = [AWS_REGION |-> ""]
    /\ contextFile \in ContextFiles
    /\ namespaceFile \in NamespaceFiles
    /\ awsProfile \in RunProfiles
    /\ calls = <<>>
    /\ k8sContextResult = NoSummary
    /\ args = <<>>
    /\ result = <<>>
    /\ NoWizard
    /\ NoSpinner

Next == SelectKubernetesContext \/ HandleK9sLaunch

Spec == Init /\ [][Next]_vars

----------------------------------------------------------------------------
(* AWSManager.HandleECRLogin                                                *)

\* the region HandleECRLogin logs in to
ECRLoginRegion(fc, cfg, env, profile) ==
    LET region == GetECRRegionForProfile(fc, profile)
    IN  IF region # "" THEN region
        ELSE IF env.AWS_REGION # "" THEN env.AWS_REGION
        ELSE cfg.DefaultRegion

\* how the two piped commands of the registry login can end
ECRLoginOutcomes ==
    {"failed to start ECR login command", "failed to start docker login command",
     "ECR get-login-password failed", "docker login failed", "nil"}

\* main: "Always get AWS account ID for summary"
GetAccountID ==
    /\ pc \in {"GetAccountID", "main: GetAccountID"}
    /\ \E ok \in BOOLEAN :
          calls' = calls \o <<Call("main", "aws sts get-caller-identity", awsProfile, ok)>>
    /\ pc' = Following(pc)
    /\ UNCHANGED <<fancyConfig, config, environ, contextFile, namespaceFile,
                   awsProfile, k8sContextResult, args, result,
                   configVars, spinnerVars>>

\* HandleECRLogin(profile)
HandleECRLogin ==
    /\ pc \in {"HandleECRLogin", "main: HandleECRLogin"}
    /\ IF ~ShouldPerformECRLogin(fancyConfig, awsProfile)
       THEN calls' = calls \o <<Return("HandleECRLogin", "nil")>>
       ELSE \E identified \in BOOLEAN, outcome \in ECRLoginOutcomes :
               LET getAccountID == Call("HandleECRLogin", "aws sts get-caller-identity",
                                        awsProfile, identified)
                   region == ECRLoginRegion(fancyConfig, config, environ, awsProfile)
                   cmd1(ok) == Call("HandleECRLogin", "aws ecr get-login-password", region, ok)
                   cmd2(ok) == Call("HandleECRLogin", "docker login", region, ok)
                   started == SpinnerStart(config, "HandleECRLogin")
                   stop == SpinnerStop(started, "HandleECRLogin")
               IN  calls' = calls \o
                       (IF ~identified
                        THEN <<getAccountID, Return("HandleECRLogin", "account id failed")>>
                        ELSE IF outcome = "failed to start ECR login command"
                        THEN <<getAccountID>> \o started \o <<cmd1(FALSE)>> \o stop
                                 \o <<Return("HandleECRLogin", outcome)>>
                        ELSE IF outcome = "failed to start docker login command"
                        THEN <<getAccountID>> \o started \o <<cmd1(TRUE), cmd2(FALSE)>> \o stop
                                 \o <<Return("HandleECRLogin", outcome)>>
                        ELSE IF outcome = "ECR get-login-password failed"
                        THEN <<getAccountID>> \o started \o <<cmd1(FALSE), cmd2(TRUE)>> \o stop
                                 \o <<Return("HandleECRLogin", outcome)>>
                        ELSE IF outcome = "docker login failed"
                        THEN <<getAccountID>> \o started \o <<cmd1(TRUE), cmd2(FALSE)>> \o stop
                                 \o <<Return("HandleECRLogin", outcome)>>
                        ELSE <<getAccountID>> \o started \o <<cmd1(TRUE), cmd2(TRUE)>> \o stop
                                 \o <<Return("HandleECRLogin", "nil")>>)
    /\ pc' = Following(pc)
    /\ UNCHANGED <<fancyConfig, config, environ, contextFile, namespaceFile,
                   awsProfile, k8sContextResult, args, result,
                   configVars, spinnerVars>>

----------------------------------------------------------------------------
(* SpecECR: the ECR part of a login run, for a selected profile             *)

\* the per-profile settings HandleECRLogin reads; the Kubernetes settings,
\* which it never reads, are left at their zero values
ECRProfileConfigs ==
    [ECRLogin : BOOLEAN, ECRRegion : {"", "us-east-1"},
     K8sContext : {""}, K9sAutoLaunch : {FALSE}]

InitECR ==
    /\ pc = "GetAccountID"
    /\ fancyConfig \in [ProfileConfigs : Stores(ECRProfileConfigs),
                        Settings : [DefaultRegion : {"", "eu-west-1"}]]
    /\ config \in [UseK9S : {FALSE}, DefaultRegion : {"eu-central-1", "us-west-2"},
                   FancyVerbose : BOOLEAN, ForceAWSLogin : {FALSE}]
    /\ environ \in [AWS_REGION : {"", "ap-south-1"}]
    /\ contextFile \in {f \in ContextFiles : Len(f.mappings) <= 1}
    /\ namespaceFile = [ok |-> FALSE, mappings |-> <<>>]
    /\ awsProfile \in RunProfiles
    /\ calls = <<>>
    /\ k8sContextResult = NoSummary
    /\ args = <<>>
    /\ result = <<>>
    /\ NoWizard
    /\ NoSpinner

NextECR == GetAccountID \/ HandleECRLogin

SpecECR == InitECR /\ [][NextECR]_vars

----------------------------------------------------------------------------
(* The configuration document: GetFancyConfigPath, LoadFancyConfig,         *)
(* SaveFancyConfig and the YAML form of a FancyConfig.                      *)
(*                                                                          *)
(* A directory stands for the .fancy-config.yaml in it.  A file is a record *)
(* with a kind: absent, unreadable, malformed (bytes that are no YAML       *)
(* document of this shape), empty (no bytes) or yaml, the mapping           *)
(* yaml.Marshal writes.  The encoder writes the keys of a map in sorted     *)
(* order, so the bytes are a function of the mapping.                       *)

HomeDir == "home"

WorkDir == "work"

Dirs == {HomeDir, WorkDir}

Absent == [kind |-> "absent"]

Unreadable == [kind |-> "unreadable"]

Malformed == [kind |-> "malformed"]

EmptyFile == [kind |-> "empty"]

\* a nil map[string]ProfileConfig
NilMap == [nil |-> TRUE]

\* the keys of a map: none for a nil map
MapKeys(m) == IF m = NilMap THEN {} ELSE DOMAIN m

\* the YAML mapping of a ProfileConfig: account_id and namespace_prefix are
\* tagged omitempty
MarshalProfileConfig(p) ==
    [name |-> p.Name, ecr_login |-> p.ECRLogin, ecr_region |-> p.ECRRegion,
     k8s_context |-> p.K8sContext, k9s_auto_launch |-> p.K9sAutoLaunch]
    @@ (IF p.AccountID # "" THEN [account_id |-> p.AccountID] ELSE <<>>)
    @@ (IF p.NamespacePrefix # "" THEN [namespace_prefix |-> p.NamespacePrefix]
        ELSE <<>>)

\* yaml.Marshal(fc): a nil map is written as the empty mapping
Marshal(fc) ==
    [kind |-> "yaml",
     profile_configs |-> [k \in MapKeys(fc.ProfileConfigs) |->
                              MarshalProfileConfig(fc.ProfileConfigs[k])],
     settings |-> [default_region |-> fc.Settings.DefaultRegion,
                   config_wizard_run |-> fc.Settings.ConfigWizardRun,
                   prefer_local_configs |-> fc.Settings.PreferLocalConfigs]]

\* a ProfileConfig decoded from its YAML mapping: a key that is not there
\* leaves the zero value; the mutant takes the name from the key of the entry
UnmarshalProfileConfigNameFromKey(key, e) ==
    [Name |-> key,
     AccountID |-> IF "account_id" \in DOMAIN e THEN e.account_id ELSE "",
     ECRLogin |-> e.ecr_login, ECRRegion |-> e.ecr_region,
     K8sContext |-> e.k8s_context, K9sAutoLaunch |-> e.k9s_auto_launch,
     NamespacePrefix |-> IF "namespace_prefix" \in DOMAIN e
                         THEN e.namespace_prefix ELSE ""]

UnmarshalProfileConfig(key, e) ==
    [Name |-> e.name,
     AccountID |-> IF "account_id" \in DOMAIN e THEN e.account_id ELSE "",
     ECRLogin |-> e.ecr_login, ECRRegion |-> e.ecr_region,
     K8sContext |-> e.k8s_context, K9sAutoLaunch |-> e.k9s_auto_launch,
     NamespacePrefix |-> IF "namespace_prefix" \in DOMAIN e
                         THEN e.namespace_prefix ELSE ""]

\* the zero value of FancyConfig
ZeroFancyConfig ==
    [ProfileConfigs |-> NilMap,
     Settings |-> [DefaultRegion |-> "", ConfigWizardRun |-> FALSE,
                   PreferLocalConfigs |-> FALSE]]

\* yaml.Unmarshal(data, &config) into a zero FancyConfig: no bytes decode to
\* nothing and leave the zero value
Unmarshal(file) ==
    IF file.kind = "malformed" THEN [config |-> ZeroFancyConfig, err |-> "yaml"]
    ELSE IF file.kind = "empty" THEN [config |-> ZeroFancyConfig, err |-> "nil"]
    ELSE [config |-> [ProfileConfigs |->
                          [k \in DOMAIN file.profile_configs |->
                               UnmarshalProfileConfig(k, file.profile_configs[k])],
                      Settings |->
                          [DefaultRegion |-> file.settings.default_region,
                           ConfigWizardRun |-> file.settings.config_wizard_run,
                           PreferLocalConfigs |-> file.settings.prefer_local_configs]],
          err |-> "nil"]

\* GetFancyConfigPath() called in directory dir: the document of dir if
\* os.Stat finds one, else the document of the home directory; the mutant
\* keeps the path the previous call resolved
GetFancyConfigPathCached(dir, fs) ==
    IF result # <<>> THEN result.path
    ELSE IF fs[dir].kind # "absent" THEN dir ELSE HomeDir

GetFancyConfigPath(dir, fs) ==
    IF fs[dir].kind # "absent" THEN dir ELSE HomeDir

\* LoadFancyConfig() called in directory dir
LoadFancyConfig(dir, fs) ==
    LET configPath == GetFancyConfigPath(dir, fs)
        file == fs[configPath]
    IN  IF file.kind = "absent"
        THEN [config |-> DefaultFancyConfig, err |-> "nil", path |-> configPath]
        ELSE IF file.kind = "unreadable"
        THEN [config |-> ZeroFancyConfig, err |-> "failed to read config file",
              path |-> configPath]
        ELSE LET u == Unmarshal(file)
             IN  IF u.err # "nil"
                 THEN [config |-> ZeroFancyConfig,
                       err |-> "failed to parse config file", path |-> configPath]
                 ELSE [config |-> [u.config EXCEPT !.ProfileConfigs =
                                       IF @ = NilMap THEN <<>> ELSE @],
                       err |-> "nil", path |-> configPath]

\* how a save can end: written; the directory could not be created; the
\* file could not be opened; the file was opened, which truncates it, and
\* the write failed before any byte (truncated) or after some (partial)
SaveOutcomes == {"nil", "mkdir", "open", "truncated", "partial"}

\* fc.SaveFancyConfig() called in directory dir, ending as outcome says:
\* os.WriteFile opens the file with O_TRUNC and then writes
SaveFancyConfig(dir, fs, fc, outcome) ==
    LET configPath == GetFancyConfigPath(dir, fs)
    IN  [path |-> configPath,
         err |-> IF outcome = "nil" THEN "nil"
                 ELSE IF outcome = "mkdir" THEN "failed to create config directory"
                 ELSE "failed to write config file",
         files |-> IF outcome = "nil" THEN [fs EXCEPT ![configPath] = Marshal(fc)]
                   ELSE IF outcome = "truncated" THEN [fs EXCEPT ![configPath] = EmptyFile]
                   ELSE IF outcome = "partial" THEN [fs EXCEPT ![configPath] = Malformed]
                   ELSE fs]

----------------------------------------------------------------------------
(* SpecStore: loads and saves of the document while the working directory  *)
(* and the files change between the calls                                   *)

\* the most loads and saves of a run of SpecStore
MaxStoreCalls == 2

\* a ProfileConfig as the wizard writes it for a profile named dev
DevProfileConfig ==
    [Name |-> "dev", AccountID |-> "123456789012", ECRLogin |-> TRUE,
     ECRRegion |-> "eu-central-1", K8sContext |-> "ctx-1",
     K9sAutoLaunch |-> FALSE, NamespacePrefix |-> ""]

\* the configurations SpecStore saves
StoreConfigs ==
    {DefaultFancyConfig,
     [ProfileConfigs |-> ("dev" :> DevProfileConfig),
      Settings |-> [DefaultRegion |-> "us-west-2", ConfigWizardRun |-> TRUE,
                    PreferLocalConfigs |-> TRUE]]}

\* what a .fancy-config.yaml of SpecStore can hold
StoreFiles ==
    {Absent, Unreadable, Malformed, EmptyFile} \cup {Marshal(fc) : fc \in StoreConfigs}

InitStore ==
    /\ pc = "store"
    /\ cwd \in Dirs
    /\ files \in [Dirs -> StoreFiles]
    /\ calls = <<>>
    /\ result = <<>>
    /\ args = <<>>
    /\ fancyConfig = DefaultFancyConfig
    /\ config = [UseK9S |-> FALSE, DefaultRegion |-> "eu-central-1",
                 FancyVerbose |-> FALSE, ForceAWSLogin |-> FALSE]
    /\ environ = [AWS_REGION |-> ""]
    /\ contextFile = [ok |-> FALSE, mappings |-> <<>>]
    /\ namespaceFile = [ok |-> FALSE, mappings |-> <<>>]
    /\ awsProfile = <<>>
    /\ k8sContextResult = NoSummary
    /\ wizard = <<>>
    /\ existingConfig = <<>>
    /\ NoSpinner

storeFrame ==
    UNCHANGED <<pc, args, fancyConfig, config, environ, contextFile, namespaceFile,
                awsProfile, k8sContextResult, wizard, existingConfig, spinnerVars>>

\* os.Chdir(dir)
Chdir ==
    /\ \E dir \in Dirs \ {cwd} : cwd' = dir
    /\ UNCHANGED <<files, calls, result>>
    /\ storeFrame

\* the operator or another process creates, replaces or removes a document
OtherProcessWrites ==
    /\ \E dir \in Dirs, file \in StoreFiles :
          /\ files[dir] # file
          /\ files' = [files EXCEPT ![dir] = file]
    /\ UNCHANGED <<cwd, calls, result>>
    /\ storeFrame

\* a call of LoadFancyConfig()
CallLoadFancyConfig ==
    /\ Len(calls) < MaxStoreCalls
    /\ LET r == LoadFancyConfig(cwd, files)
       IN  /\ result' = r
           /\ calls' = Append(calls, Call("LoadFancyConfig", "os.ReadFile", r.path,
                                          r.err = "nil"))
    /\ UNCHANGED <<cwd, files>>
    /\ storeFrame

\* a call of fc.SaveFancyConfig()
CallSaveFancyConfig ==
    /\ Len(calls) < MaxStoreCalls
    /\ \E fc \in StoreConfigs, outcome \in SaveOutcomes :
          LET r == SaveFancyConfig(cwd, files, fc, outcome)
          IN  /\ files' = r.files
              /\ result' = [config |-> fc, err |-> r.err, path |-> r.path]
              /\ calls' = Append(calls, Call("SaveFancyConfig", "os.WriteFile", r.path,
                                             r.err = "nil"))
    /\ UNCHANGED cwd
    /\ storeFrame

NextStore == Chdir \/ OtherProcessWrites \/ CallLoadFancyConfig \/ CallSaveFancyConfig

SpecStore == InitStore /\ [][NextStore]_vars

----------------------------------------------------------------------------
(* SpecRoundTrip: a FancyConfig saved, loaded back and saved again          *)

\* the values of a ProfileConfig: every field empty or false, or set
ProfileConfigValues ==
    [Name : {"", "dev", "other"}, AccountID : {"", "123456789012"},
     ECRLogin : BOOLEAN, ECRRegion : {"", "us-east-1"},
     K8sContext : {"", "ctx-1"}, K9sAutoLaunch : BOOLEAN,
     NamespacePrefix : {"", "team"}]

\* the zero value of ProfileConfig
ZeroProfileConfig ==
    [Name |-> "", AccountID |-> "", ECRLogin |-> FALSE, ECRRegion |-> "",
     K8sContext |-> "", K9sAutoLaunch |-> FALSE, NamespacePrefix |-> ""]

\* the profile maps: nil, empty, one entry, two entries
ProfileMaps ==
    {NilMap, <<>>}
        \cup {("dev" :> p) : p \in ProfileConfigValues}
        \cup {("dev" :> p) @@ ("prod" :> q) :
                  p \in ProfileConfigValues, q \in {ZeroProfileConfig, DevProfileConfig}}

\* the well-formed configurations
WellFormedConfigs ==
    [ProfileConfigs : ProfileMaps,
     Settings : [DefaultRegion : {"", "eu-central-1"}, ConfigWizardRun : BOOLEAN,
                 PreferLocalConfigs : {TRUE}]]

InitRoundTrip ==
    /\ pc = "save"
    /\ args \in [config : WellFormedConfigs]
    /\ result = <<>>
    /\ cwd \in Dirs
    /\ files \in {[dir \in Dirs |-> Absent], [dir \in Dirs |-> Malformed]}
    /\ wizard = <<>>
    /\ existingConfig = <<>>
    /\ NoRun
    /\ NoSpinner

roundTripFrame == UNCHANGED <<args, cwd, wizard, existingConfig, runVars, spinnerVars>>

\* cfg.SaveFancyConfig()
SaveFirst ==
    /\ pc = "save"
    /\ \E outcome \in SaveOutcomes :
          LET r == SaveFancyConfig(cwd, files, args.config, outcome)
          IN  /\ files' = r.files
              /\ result' = [first |-> r.files[r.path]]
              /\ pc' = IF r.err = "nil" THEN "load" ELSE "failed"
    /\ roundTripFrame

\* loaded, err := LoadFancyConfig()
LoadBack ==
    /\ pc = "load"
    /\ LET r == LoadFancyConfig(cwd, files)
       IN  /\ result' = [first |-> result.first, loaded |-> r.config]
           /\ pc' = IF r.err = "nil" THEN "save again" ELSE "failed"
    /\ UNCHANGED files
    /\ roundTripFrame

\* loaded.SaveFancyConfig()
SaveAgain ==
    /\ pc = "save again"
    /\ \E outcome \in SaveOutcomes :
          LET r == SaveFancyConfig(cwd, files, result.loaded, outcome)
          IN  /\ files' = r.files
              /\ result' = [first |-> result.first, loaded |-> result.loaded,
                            second |-> r.files[r.path]]
              /\ pc' = IF r.err = "nil" THEN "done" ELSE "failed"
    /\ roundTripFrame

NextRoundTrip == SaveFirst \/ LoadBack \/ SaveAgain

SpecRoundTrip == InitRoundTrip /\ [][NextRoundTrip]_vars

----------------------------------------------------------------------------
(* ConfigWizard: the operators of a run                                     *)
(*                                                                          *)
(* A line the operator types is what readInput returns: it is trimmed. The  *)
(* answers whose first character or digits the code looks at are sequences  *)
(* of characters; the regions and the namespace are atomic strings.         *)

Digits == <<"0","1","2","3","4","5","6","7","8","9">>

IsDigit(c) == \E i \in 1..Len(Digits) : Digits[i] = c

DigitValue(c) == (CHOOSE i \in 1..Len(Digits) : Digits[i] = c) - 1

\* the number a string of digits denotes
RECURSIVE DecimalValue(_)
DecimalValue(s) ==
    IF s = <<>> THEN 0
    ELSE 10 * DecimalValue(SubSeq(s, 1, Len(s) - 1)) + DigitValue(s[Len(s)])

\* strconv.Atoi(s): an optional sign and at least one digit
Atoi(s) ==
    LET signed == s # <<>> /\ s[1] \in {"+", "-"}
        digits == IF signed THEN Tail(s) ELSE s
    IN  IF digits = <<>> \/ \E i \in 1..Len(digits) : ~IsDigit(digits[i])
        THEN [n |-> 0, ok |-> FALSE]
        ELSE [n |-> IF signed /\ s[1] = "-" THEN 0 - DecimalValue(digits)
                    ELSE DecimalValue(digits),
              ok |-> TRUE]

\* input != "" && strings.ToLower(input)[0] == c
StartsWith(input, c) == input # <<>> /\ ToLower(input)[1] = c

\* an entry of the log for a line read from the operator: the function that
\* asked, what it asked, for which profile, and the line
Ask(by, prompt, profile, answer) ==
    [by |-> by, op |-> "prompt", arg |-> prompt, ok |-> TRUE,
     profile |-> profile, answer |-> answer]

\* the mode Run takes for a non-empty store: add-new-only unless the choice
\* is "1" and the confirmation begins with y; the mutant takes the choice
\* alone
AddNewOnlyConfirmIgnored(choice, confirm) == choice # <<"1">>

AddNewOnly(choice, confirm) ==
    IF choice = <<"1">>
    THEN confirm = <<>> \/ ToLower(confirm)[1] # "y"
    ELSE TRUE

\* the profiles configureProfiles goes through: in add-new-only mode those
\* without an entry in the store; the mutant goes through all of them
ProfilesToConfigureAll(awsProfiles, store, addNewOnly) == awsProfiles

ProfilesToConfigure(awsProfiles, store, addNewOnly) ==
    IF addNewOnly
    THEN LET new(profile) == profile.Name \notin MapKeys(store.ProfileConfigs)
         IN  SelectSeq(awsProfiles, new)
    ELSE awsProfiles

\* config.ECRLogin for the line typed at the ECR prompt; the mutant takes
\* the empty line as no
ECRLoginDefaultNo(ecrInput) == StartsWith(ecrInput, "y")

ECRLogin(ecrInput) == ecrInput = <<>> \/ ToLower(ecrInput)[1] = "y"

\* config.K8sContext for the line typed at the context prompt; the mutant
\* takes a number beyond the list as the last context
K8sContextLastIfBeyond(k8sContexts, choice) ==
    IF choice # <<>> /\ choice # <<"0">>
    THEN LET idx == Atoi(choice)
         IN  IF idx.ok /\ idx.n > 0
             THEN k8sContexts[IF idx.n <= Len(k8sContexts) THEN idx.n
                              ELSE Len(k8sContexts)]
             ELSE ""
    ELSE ""

K8sContext(k8sContexts, choice) ==
    IF choice # <<>> /\ choice # <<"0">>
    THEN LET idx == Atoi(choice)
         IN  IF idx.ok /\ idx.n > 0 /\ idx.n <= Len(k8sContexts)
             THEN k8sContexts[idx.n]
             ELSE ""
    ELSE ""

\* getProfileConfiguration(profile) with the discovered contexts, the
\* operator answering each prompt that is asked with the line answers holds
\* for it: the ProfileConfiguration and the prompts asked, in order
getProfileConfiguration(profile, k8sContexts, answers) ==
    LET ecrLogin == ECRLogin(answers.ecr)
        defaultRegion == IF profile.Region # "" THEN profile.Region ELSE "eu-central-1"
        ecrRegion == IF ~ecrLogin THEN ""
                     ELSE IF answers.region = "" THEN defaultRegion
                     ELSE answers.region
        k8sContext == IF Len(k8sContexts) > 0
                      THEN K8sContext(k8sContexts, answers.context)
                      ELSE ""
        k9sAutoLaunch == k8sContext # "" /\ StartsWith(answers.k9s, "y")
        namespace == IF k9sAutoLaunch /\ answers.namespace \notin {"", "default"}
                     THEN answers.namespace ELSE ""
        by == "getProfileConfiguration"
    IN  [config |-> [Name |-> profile.Name, ECRLogin |-> ecrLogin,
                     ECRRegion |-> ecrRegion, K8sContext |-> k8sContext,
                     K9sAutoLaunch |-> k9sAutoLaunch, Namespace |-> namespace],
         prompts |->
             <<Ask(by, "ECR login", profile.Name, answers.ecr)>>
             \o (IF ecrLogin
                 THEN <<Ask(by, "ECR region", profile.Name, answers.region)>>
                 ELSE <<>>)
             \o (IF Len(k8sContexts) > 0
                 THEN <<Ask(by, "Kubernetes context", profile.Name, answers.context)>>
                 ELSE <<>>)
             \o (IF k8sContext # ""
                 THEN <<Ask(by, "K9s auto-launch", profile.Name, answers.k9s)>>
                 ELSE <<>>)
             \o (IF k9sAutoLaunch
                 THEN <<Ask(by, "K9s namespace", profile.Name, answers.namespace)>>
                 ELSE <<>>)]

\* the ProfileConfig configureProfiles stores for a profile
StoredProfileConfig(profile, profileConfig) ==
    [Name |-> profile.Name, AccountID |-> profile.AccountID,
     ECRLogin |-> profileConfig.ECRLogin, ECRRegion |-> profileConfig.ECRRegion,
     K8sContext |-> profileConfig.K8sContext,
     K9sAutoLaunch |-> profileConfig.K9sAutoLaunch, NamespacePrefix |-> ""]

\* the steps of Run, in the order of its body; the mutant saves before the
\* global settings are configured
RunStepsSaveFirst ==
    <<"LoadFancyConfig", "discoverConfigurations", "showDiscoveredConfigurations",
      "configureProfiles", "saveConfiguration", "configureGlobalSettings",
      "returned">>

RunSteps ==
    <<"LoadFancyConfig", "discoverConfigurations", "showDiscoveredConfigurations",
      "configureProfiles", "configureGlobalSettings", "saveConfiguration",
      "returned">>

\* the step of Run that follows step
Then(step) == RunSteps[(CHOOSE i \in 1..Len(RunSteps) : RunSteps[i] = step) + 1]

----------------------------------------------------------------------------
(* SpecWizard: main up to the login run, with the configuration wizard      *)

\* a wizard constructed with the stored document as its configuration
NewConfigWizardFromDocument ==
    LET loaded == LoadFancyConfig(cwd, files)
    IN  [config |-> IF loaded.err = "nil" THEN loaded.config ELSE DefaultFancyConfig,
         awsProfiles |-> <<>>, k8sContexts |-> <<>>,
         addNewOnly |-> FALSE, profilesToConfigure |-> <<>>]

\* NewConfigWizard()
NewConfigWizard ==
    [config |-> DefaultFancyConfig, awsProfiles |-> <<>>, k8sContexts |-> <<>>,
     addNewOnly |-> FALSE, profilesToConfigure |-> <<>>]

\* where main goes when Run has returned err
AfterRun(err) ==
    IF err # "nil" THEN "exit 1"
    ELSE IF args.configFlag THEN "exit 0"
    ELSE "main.LoadFancyConfig"

wizardFrame ==
    UNCHANGED <<args, result, cwd, fancyConfig, config, environ, contextFile,
                namespaceFile, awsProfile, k8sContextResult, spinnerVars>>

\* main: the --config flag constructs a wizard and runs it
Main ==
    /\ pc = "main"
    /\ IF args.configFlag
       THEN /\ wizard' = NewConfigWizard
            /\ pc' = RunSteps[1]
       ELSE /\ wizard' = wizard
            /\ pc' = "RunConfigWizardIfNeeded"
    /\ UNCHANGED <<files, existingConfig, calls>>
    /\ wizardFrame

\* the lines the operator types at the prompt of RunConfigWizardIfNeeded
UpdateAnswers == {<<>>, <<"y">>, <<"n">>}

\* RunConfigWizardIfNeeded() up to its call of Run: indexing the first
\* character of an empty line panics
RunConfigWizardIfNeeded ==
    /\ pc = "RunConfigWizardIfNeeded"
    /\ LET by == "RunConfigWizardIfNeeded"
           r == LoadFancyConfig(cwd, files)
           load == Call(by, "LoadFancyConfig", r.err, r.err = "nil")
           run == /\ wizard' = NewConfigWizard
                  /\ pc' = RunSteps[1]
       IN  IF r.err # "nil"
           THEN /\ calls' = calls \o <<load, Return(by, r.err)>>
                /\ pc' = "exit 1"
                /\ wizard' = wizard
           ELSE IF r.config.Settings.ConfigWizardRun
           THEN /\ calls' = calls \o <<load, Return(by, "nil")>>
                /\ pc' = "main.LoadFancyConfig"
                /\ wizard' = wizard
           ELSE IF files[GetFancyConfigPath(cwd, files)].kind # "absent"
           THEN \E input \in UpdateAnswers :
                   LET ask == Ask(by, "Run configuration wizard", "", input)
                   IN  IF input = <<>>
                       THEN /\ calls' = calls \o <<load, ask, Call(by, "panic", "index out of range", FALSE)>>
                            /\ pc' = "panic"
                            /\ wizard' = wizard
                       ELSE IF ToLower(input)[1] # "y"
                       THEN /\ calls' = calls \o <<load, ask, Return(by, "nil")>>
                            /\ pc' = "main.LoadFancyConfig"
                            /\ wizard' = wizard
                       ELSE /\ calls' = calls \o <<load, ask>>
                            /\ run
           ELSE /\ calls' = calls \o <<load>>
                /\ run
    /\ UNCHANGED <<files, existingConfig>>
    /\ wizardFrame

\* the lines the operator types at the mode question and at its confirmation
ModeChoices == {<<>>, <<"1">>, <<"2">>}

ModeConfirmations == {<<>>, <<"Y", "e", "s">>, <<"n">>}

\* Run: the existing configuration is loaded and, if it has profiles, the
\* mode is asked for
RunLoadFancyConfig ==
    /\ pc = "LoadFancyConfig"
    /\ LET r == LoadFancyConfig(cwd, files)
           load == Call("Run", "LoadFancyConfig", r.err, r.err = "nil")
       IN  /\ existingConfig' = r
           /\ IF r.err = "nil" /\ MapKeys(r.config.ProfileConfigs) # {}
              THEN \E choice \in ModeChoices, confirm \in ModeConfirmations :
                      /\ choice # <<"1">> => confirm = <<>>
                      /\ calls' = calls \o <<load, Ask("Run", "Choice", "", choice)>>
                                    \o (IF choice = <<"1">>
                                        THEN <<Ask("Run", "Are you sure", "", confirm)>>
                                        ELSE <<>>)
                      /\ wizard' = IF AddNewOnly(choice, confirm)
                                   THEN [wizard EXCEPT !.addNewOnly = TRUE,
                                                       !.config = r.config]
                                   ELSE wizard
              ELSE /\ calls' = calls \o <<load>>
                   /\ wizard' = wizard
    /\ pc' = Then("LoadFancyConfig")
    /\ UNCHANGED files
    /\ wizardFrame

\* the profiles of ~/.aws/config as ParseAWSProfiles returns them
DevAWSProfile == [Name |-> "dev", AccountID |-> "123456789012", Region |-> ""]

ProdAWSProfile == [Name |-> "prod", AccountID |-> "", Region |-> "eu-west-1"]

\* the lists of profiles discovered: none (also when the file cannot be
\* parsed), one, two, the same section twice
DiscoveredProfiles ==
    {<<>>, <<DevAWSProfile>>, <<ProdAWSProfile>>, <<DevAWSProfile, ProdAWSProfile>>,
     <<DevAWSProfile, DevAWSProfile>>}

\* the lists of context names discovered
DiscoveredContexts == {<<>>, <<"ctx-1">>}

\* discoverConfigurations(): it returns nil whatever the parsers return
DiscoverConfigurations ==
    /\ pc = "discoverConfigurations"
    /\ \E profiles \in DiscoveredProfiles, contexts \in DiscoveredContexts :
          wizard' = [wizard EXCEPT !.awsProfiles = profiles, !.k8sContexts = contexts]
    /\ pc' = Then("discoverConfigurations")
    /\ UNCHANGED <<files, existingConfig, calls>>
    /\ wizardFrame

\* showDiscoveredConfigurations()
ShowDiscoveredConfigurations ==
    /\ pc = "showDiscoveredConfigurations"
    /\ pc' = Then("showDiscoveredConfigurations")
    /\ UNCHANGED <<files, wizard, existingConfig, calls>>
    /\ wizardFrame

\* configureProfiles() up to its loop
ConfigureProfiles ==
    /\ pc = "configureProfiles"
    /\ LET profilesToConfigure ==
               ProfilesToConfigure(wizard.awsProfiles, wizard.config, wizard.addNewOnly)
       IN  /\ wizard' = [wizard EXCEPT !.profilesToConfigure = profilesToConfigure]
           /\ pc' = IF profilesToConfigure = <<>> THEN Then("configureProfiles")
                    ELSE "configureProfiles: for"
    /\ UNCHANGED <<files, existingConfig, calls>>
    /\ wizardFrame

\* the lines the operator types at the prompts for a profile
ConfigureAnswers == {<<>>, <<"n">>}

ProfileAnswers ==
    [ecr : {<<>>, <<"n">>}, region : {""}, context : {<<>>, <<"1">>, <<"2">>, <<"x">>},
     k9s : {<<>>, <<"y">>}, namespace : {""}]

\* the answers to the prompts that getProfileConfiguration does not ask are
\* lines that are never read: they are left empty
Asked(prompts, answers) ==
    LET asked(prompt) == \E i \in 1..Len(prompts) : prompts[i].arg = prompt
    IN  /\ ~asked("ECR region") => answers.region = ""
        /\ ~asked("Kubernetes context") => answers.context = <<>>
        /\ ~asked("K9s auto-launch") => answers.k9s = <<>>
        /\ ~asked("K9s namespace") => answers.namespace = ""

\* one iteration of the loop of configureProfiles
ConfigureProfile ==
    /\ pc = "configureProfiles: for"
    /\ LET profile == Head(wizard.profilesToConfigure)
           rest == Tail(wizard.profilesToConfigure)
           ask(configure) ==
               Ask("configureProfiles", "Configure this profile", profile.Name, configure)
       IN  /\ \E configure \in ConfigureAnswers :
                 IF StartsWith(configure, "n")
                 THEN /\ calls' = calls \o <<ask(configure)>>
                      /\ wizard' = [wizard EXCEPT !.profilesToConfigure = rest]
                 ELSE \E answers \in ProfileAnswers :
                         LET r == getProfileConfiguration(profile, wizard.k8sContexts,
                                                          answers)
                         IN  /\ Asked(r.prompts, answers)
                             /\ calls' = calls \o <<ask(configure)>> \o r.prompts
                             /\ wizard' =
                                    [wizard EXCEPT
                                         !.profilesToConfigure = rest,
                                         !.config.ProfileConfigs =
                                             (profile.Name :>
                                                  StoredProfileConfig(profile, r.config))
                                             @@ @]
           /\ pc' = IF rest = <<>> THEN Then("configureProfiles")
                    ELSE "configureProfiles: for"
    /\ UNCHANGED <<files, existingConfig>>
    /\ wizardFrame

\* the lines the operator types at the default region prompt
RegionAnswers == {"", "us-west-2"}

\* configureGlobalSettings()
ConfigureGlobalSettings ==
    /\ pc = "configureGlobalSettings"
    /\ \E region \in RegionAnswers :
          /\ calls' = Append(calls, Ask("configureGlobalSettings", "Default AWS region",
                                        "", region))
          /\ wizard' = [wizard EXCEPT
                            !.config.Settings.DefaultRegion =
                                IF region # "" THEN region ELSE @,
                            !.config.Settings.ConfigWizardRun = TRUE]
    /\ pc' = Then("configureGlobalSettings")
    /\ UNCHANGED <<files, existingConfig>>
    /\ wizardFrame

\* the lines the operator types at the save confirmation
SaveConfirmations == {<<>>, <<"N", "o">>, <<"y">>}

\* the operator declines the save: the line begins with n; the mutant never
\* takes a line as declining
SaveDeclinedNever(confirm) == FALSE

SaveDeclined(confirm) == confirm # <<>> /\ ToLower(confirm)[1] = "n"

\* saveConfiguration(), and Run returning its error
SaveConfiguration ==
    /\ pc = "saveConfiguration"
    /\ \E confirm \in SaveConfirmations :
          LET ask == Ask("saveConfiguration", "Proceed", "", confirm)
              cancelled == "failed to save configuration: configuration save cancelled"
          IN  IF SaveDeclined(confirm)
              THEN /\ calls' = calls \o <<ask, Return("Run", cancelled)>>
                   /\ files' = files
                   /\ pc' = AfterRun(cancelled)
              ELSE \E outcome \in SaveOutcomes :
                      LET r == SaveFancyConfig(cwd, files, wizard.config, outcome)
                          write == IF outcome = "mkdir" THEN <<>>
                                   ELSE <<Call("SaveFancyConfig", "os.WriteFile", r.path,
                                               r.err = "nil")>>
                      IN  /\ files' = r.files
                          /\ IF r.err # "nil"
                             THEN /\ calls' = calls \o <<ask>> \o write
                                                  \o <<Return("Run", r.err)>>
                                  /\ pc' = AfterRun(r.err)
                             ELSE /\ calls' = calls \o <<ask>> \o write
                                  /\ pc' = Then("saveConfiguration")
    /\ UNCHANGED <<wizard, existingConfig>>
    /\ wizardFrame

\* Run reports success and returns nil
RunCompleted ==
    /\ pc = "returned"
    /\ calls' = calls \o <<Call("Run", "print", "completed successfully", TRUE),
                           Return("Run", "nil")>>
    /\ pc' = AfterRun("nil")
    /\ UNCHANGED <<files, wizard, existingConfig>>
    /\ wizardFrame

\* main: config.LoadFancyConfig() before the login run
MainLoadFancyConfig ==
    /\ pc = "main.LoadFancyConfig"
    /\ LET r == LoadFancyConfig(cwd, files)
       IN  /\ calls' = Append(calls, Call("main", "LoadFancyConfig", r.err,
                                          r.err = "nil"))
           /\ pc' = IF r.err # "nil" THEN "exit 1" ELSE "login"
    /\ UNCHANGED <<files, wizard, existingConfig>>
    /\ wizardFrame

\* entries of a store that no wizard run writes: edited by hand
HandEditedProfileConfig ==
    [Name |-> "dev", AccountID |-> "", ECRLogin |-> FALSE, ECRRegion |-> "",
     K8sContext |-> "", K9sAutoLaunch |-> TRUE, NamespacePrefix |-> "team"]

ProdProfileConfig ==
    [Name |-> "prod", AccountID |-> "210987654321", ECRLogin |-> TRUE,
     ECRRegion |-> "us-east-1", K8sContext |-> "ctx-old", K9sAutoLaunch |-> TRUE,
     NamespacePrefix |-> ""]

\* the configurations a document holds when main starts
WizardStores ==
    [ProfileConfigs : {<<>>, "dev" :> HandEditedProfileConfig,
                       "prod" :> ProdProfileConfig,
                       ("dev" :> HandEditedProfileConfig) @@ ("prod" :> ProdProfileConfig)},
     Settings : [DefaultRegion : {"eu-west-1"}, ConfigWizardRun : BOOLEAN,
                 PreferLocalConfigs : {TRUE}]]

\* what the document holds when main starts
WizardFiles ==
    {Absent, Unreadable, Malformed, EmptyFile} \cup {Marshal(fc) : fc \in WizardStores}

InitWizard ==
    /\ pc = "main"
    /\ args \in [configFlag : BOOLEAN]
    /\ result = <<>>
    /\ cwd = HomeDir
    /\ files \in {[dir \in Dirs |-> IF dir = HomeDir THEN file ELSE Absent] :
                      file \in WizardFiles}
    /\ wizard = <<>>
    /\ existingConfig = <<>>
    /\ NoRun
    /\ NoSpinner

NextWizard ==
    \/ Main
    \/ RunConfigWizardIfNeeded
    \/ RunLoadFancyConfig
    \/ DiscoverConfigurations
    \/ ShowDiscoveredConfigurations
    \/ ConfigureProfiles
    \/ ConfigureProfile
    \/ ConfigureGlobalSettings
    \/ SaveConfiguration
    \/ RunCompleted
    \/ MainLoadFancyConfig

SpecWizard == InitWizard /\ [][NextWizard]_vars

----------------------------------------------------------------------------
(* SpecProfile: getProfileConfiguration applied to bounded inputs           *)

\* the lines the operator can type at the prompts for a profile
YesNoAnswers == {<<>>, <<"y">>, <<"Y">>, <<"n">>, <<"N", "o">>, <<"x">>}

ContextAnswers ==
    {<<>>, <<"0">>, <<"1">>, <<"2">>, <<"3">>, <<"x">>, <<"0", "1">>, <<"-", "1">>,
     <<"+", "2">>, <<"1", "0">>}

PromptAnswers ==
    [ecr : YesNoAnswers, region : {"", "us-west-2"}, context : ContextAnswers,
     k9s : YesNoAnswers, namespace : {"", "default", "team"}]

InitProfile ==
    /\ pc = "getProfileConfiguration"
    /\ args \in [profile : {DevAWSProfile, ProdAWSProfile},
                 k8sContexts : {<<>>, <<"ctx-1">>, <<"ctx-1", "ctx-2">>},
                 answers : PromptAnswers]
    /\ result = <<>>
    /\ NoRun
    /\ NoWizard
    /\ NoSpinner

CallGetProfileConfiguration ==
    /\ pc = "getProfileConfiguration"
    /\ LET r == getProfileConfiguration(args.profile, args.k8sContexts, args.answers)
       IN  result' = r
    /\ pc' = "returned"
    /\ UNCHANGED <<args, runVars, configVars, spinnerVars>>

NextProfile == CallGetProfileConfiguration

SpecProfile == InitProfile /\ [][NextProfile]_vars

----------------------------------------------------------------------------
(* SpecSpinner: a Spinner started before a blocking call and stopped after  *)
(* it, with the goroutine Start launches.  The field running is read by the *)
(* goroutine and written by Stop without synchronisation: the statements of *)
(* the two interleave freely.                                               *)

\* the most frames the goroutine paints in a run of SpecSpinner
MaxFrames == 6

\* Spinner.chars
SpinnerChars == <<"|", "/", "-", "\\">>

\* NewSpinner(message)
NewSpinner == [index |-> 0, running |-> FALSE]

InitSpinner ==
    /\ pc = "Start"
    /\ spinner = NewSpinner
    /\ goroutine = "none"
    /\ terminal = <<>>
    /\ args = <<>>
    /\ result = <<>>
    /\ NoRun
    /\ NoWizard

spinnerFrame == UNCHANGED <<args, result, runVars, configVars>>

\* Start(): running is set and the goroutine is launched
Start ==
    /\ pc = "Start"
    /\ spinner' = [spinner EXCEPT !.running = TRUE]
    /\ goroutine' = "for"
    /\ pc' = "blocking call"
    /\ UNCHANGED terminal
    /\ spinnerFrame

\* the call the spinner was started for returns
BlockingCallReturns ==
    /\ pc = "blocking call"
    /\ pc' = "Stop"
    /\ UNCHANGED <<spinner, goroutine, terminal>>
    /\ spinnerFrame

\* Stop(): s.running = false
StopClearsRunning ==
    /\ pc = "Stop"
    /\ spinner' = [spinner EXCEPT !.running = FALSE]
    /\ pc' = "Stop: Printf"
    /\ UNCHANGED <<goroutine, terminal>>
    /\ spinnerFrame

\* Stop(): the line is cleared, and Stop returns
StopClearsLine ==
    /\ pc = "Stop: Printf"
    /\ terminal' = Append(terminal, "clear")
    /\ pc' = "stopped"
    /\ UNCHANGED <<spinner, goroutine>>
    /\ spinnerFrame

\* the goroutine: for s.running
GoroutineTestsRunning ==
    /\ goroutine = "for"
    /\ goroutine' = IF spinner.running THEN "Printf" ELSE "exited"
    /\ UNCHANGED <<pc, spinner, terminal>>
    /\ spinnerFrame

\* the goroutine: a frame is painted
GoroutinePaints ==
    /\ goroutine = "Printf"
    /\ Len(SelectSeq(terminal, LAMBDA write : write # "clear")) < MaxFrames
    /\ terminal' = Append(terminal, SpinnerChars[spinner.index + 1])
    /\ goroutine' = "index"
    /\ UNCHANGED <<pc, spinner>>
    /\ spinnerFrame

\* the goroutine: s.index = (s.index + 1) % len(s.chars)
GoroutineAdvances ==
    /\ goroutine = "index"
    /\ spinner' = [spinner EXCEPT !.index = (@ + 1) % Len(SpinnerChars)]
    /\ goroutine' = "Sleep"
    /\ UNCHANGED <<pc, terminal>>
    /\ spinnerFrame

\* the goroutine: time.Sleep returns
GoroutineWakes ==
    /\ goroutine = "Sleep"
    /\ goroutine' = "for"
    /\ UNCHANGED <<pc, spinner, terminal>>
    /\ spinnerFrame

NextSpinner ==
    \/ Start
    \/ BlockingCallReturns
    \/ StopClearsRunning
    \/ StopClearsLine
    \/ GoroutineTestsRunning
    \/ GoroutinePaints
    \/ GoroutineAdvances
    \/ GoroutineWakes

SpecSpinner == InitSpinner /\ [][NextSpinner]_vars

----------------------------------------------------------------------------
(* AWSManager.SelectAWSProfile and HandleAWSLogin, as main calls them       *)

\* the ways the profile selection can end: the AWS config cannot be opened,
\* it names no profile, fzf runs into the 60 seconds, fzf exits non-zero
\* (the operator cancelled, nothing matched), fzf prints nothing, or fzf
\* prints one of the profiles
ProfileSelections ==
    {[err |-> e, profile |-> <<>>] :
        e \in {"failed to open AWS config", "no profiles",
               "profile selection timed out after 60 seconds",
               "profile selection failed", "no profile selected"}}
    \cup {[err |-> "nil", profile |-> p] : p \in RunProfiles}

\* main: "Select AWS profile" and "Set AWS_PROFILE environment variable for
\* this process"
SelectAWSProfile ==
    /\ pc = "main: SelectAWSProfile"
    /\ \E o \in ProfileSelections, exported \in BOOLEAN :
          LET by == "SelectAWSProfile"
              getAWSProfiles(ok) == Call(by, "getAWSProfiles", "", ok)
              fzf == Call(by, "fzf", IF o.err = "nil" THEN o.profile ELSE o.err,
                          o.err \in {"nil", "no profile selected"})
          IN  IF o.err = "nil"
              THEN /\ calls' = calls \o
                          <<getAWSProfiles(TRUE), fzf,
                            Call(by, "exportProfileToTemp", o.profile, exported),
                            Return(by, "nil"),
                            Call("main", "os.Setenv", o.profile, TRUE)>>
                   /\ awsProfile' = o.profile
                   /\ environ' = [environ EXCEPT !.AWS_PROFILE = o.profile]
                   /\ pc' = Following(pc)
              ELSE /\ calls' = calls \o
                          (IF o.err = "failed to open AWS config"
                           THEN <<getAWSProfiles(FALSE), Return(by, o.err),
                                  Die("main", "Failed to select AWS profile")>>
                           ELSE IF o.err = "no profiles"
                           THEN <<getAWSProfiles(TRUE),
                                  Die(by, "No AWS profiles found in ~/.aws/config")>>
                           ELSE IF o.err = "no profile selected"
                           THEN <<getAWSProfiles(TRUE), fzf,
                                  Die(by, "No profile selected. Exiting.")>>
                           ELSE <<getAWSProfiles(TRUE), fzf, Return(by, o.err),
                                  Die("main", "Failed to select AWS profile")>>)
                   /\ pc' = "exit 1"
                   /\ UNCHANGED <<awsProfile, environ>>
    /\ UNCHANGED <<fancyConfig, config, contextFile, namespaceFile,
                   k8sContextResult, args, result, configVars, spinnerVars>>

\* isSessionValid(profile), the identity query succeeding or not
isSessionValid(profile, valid) ==
    Call("isSessionValid", "aws sts get-caller-identity", profile, valid)

\* what isSSOMProfile finds for the profile: the AWS config cannot be
\* opened, an sso_ line in the profile's section, or none
SSOProfileAnswers == {"open failed", "sso", "not sso"}

\* performSSOMLogin(profile): its calls and how it ends ("nil": it returns
\* nil; otherwise the message it dies with), the login command and the
\* verification succeeding or not
performSSOMLogin(cfg, profile, loggedIn, verified) ==
    LET by == "performSSOMLogin"
        started == SpinnerStart(cfg, by)
        login == started \o <<Call(by, "aws sso login", profile, loggedIn)>>
                     \o SpinnerStop(started, by)
    IN  IF ~loggedIn
        THEN [calls |-> login \o <<Die(by, "AWS SSO login failed")>>, exits |-> TRUE]
        ELSE IF ~verified
        THEN [calls |-> login \o <<isSessionValid(profile, FALSE),
                                   Die(by, "AWS SSO login verification failed")>>,
              exits |-> TRUE]
        ELSE [calls |-> login \o <<isSessionValid(profile, TRUE), Return(by, "nil")>>,
              exits |-> FALSE]

\* the answers to "Do you want to continue anyway? (y/n)": Scanln failing,
\* "y", or anything else
ContinueAnswers == {"scan error", "y", "n"}

\* main: "Handle AWS SSO login": HandleAWSLogin(awsProfile, cfg.ForceAWSLogin)
HandleAWSLogin ==
    /\ pc = "main: HandleAWSLogin"
    /\ \E valid \in BOOLEAN, sso \in SSOProfileAnswers, loggedIn \in BOOLEAN,
          verified \in BOOLEAN, response \in ContinueAnswers :
          LET by == "HandleAWSLogin"
              check == IF ~config.ForceAWSLogin
                       THEN <<isSessionValid(awsProfile, valid)>> ELSE <<>>
              isSSOMProfile(ok) == Call("isSSOMProfile", "os.Open", "", ok)
              prompt(ok) == Call(by, "prompt", "Do you want to continue anyway?", ok)
              login == performSSOMLogin(config, awsProfile, loggedIn, verified)
              failed(log) == /\ calls' = calls \o log
                             /\ pc' = "exit 1"
              passed(log) == /\ calls' = calls \o log \o <<Return(by, "nil")>>
                             /\ pc' = Following(pc)
          IN  IF ~config.ForceAWSLogin /\ valid
              THEN passed(check)
              ELSE IF sso = "open failed"
              THEN failed(check \o <<isSSOMProfile(FALSE), Return(by, "open failed"),
                                        Die("main", "AWS login failed")>>)
              ELSE IF sso = "sso"
              THEN IF login.exits
                   THEN failed(check \o <<isSSOMProfile(TRUE)>> \o login.calls)
                   ELSE passed(check \o <<isSSOMProfile(TRUE)>> \o login.calls)
              ELSE IF response = "scan error"
              THEN failed(check \o <<isSSOMProfile(TRUE), prompt(FALSE),
                                     Return(by, "scan error"),
                                     Die("main", "AWS login failed")>>)
              ELSE IF response # "y"
              THEN failed(check \o <<isSSOMProfile(TRUE), prompt(TRUE),
                                     Die(by, "User chose to exit due to authentication issues.")>>)
              ELSE passed(check \o <<isSSOMProfile(TRUE), prompt(TRUE)>>)
    /\ UNCHANGED <<fancyConfig, config, environ, contextFile, namespaceFile,
                   awsProfile, k8sContextResult, args, result,
                   configVars, spinnerVars>>

\* main's ecrResult: "failed" when HandleECRLogin returned an error,
\* "successful" when it returned none and the profile has ecrLogin, else
\* not attempted
ECRResult(log, fc, profile) ==
    IF \E i \in 1..Len(log) :
          log[i].by = "HandleECRLogin" /\ log[i].op = "return" /\ ~log[i].ok
    THEN "ECR login: failed"
    ELSE IF ShouldPerformECRLogin(fc, profile) THEN "ECR login: successful"
    ELSE ""

\* main: "Show summary before k9s prompt (unless verbose)"
Summary ==
    /\ pc = "main: summary"
    /\ calls' = IF ~config.FancyVerbose
                THEN calls \o <<Call("main", "Fancy Login Summary",
                                     [profile |-> awsProfile,
                                      context |-> k8sContextResult,
                                      ecr |-> ECRResult(calls, fancyConfig, awsProfile)],
                                     TRUE)>>
                ELSE calls
    /\ pc' = Following(pc)
    /\ UNCHANGED <<fancyConfig, config, environ, contextFile, namespaceFile,
                   awsProfile, k8sContextResult, args, result,
                   configVars, spinnerVars>>

----------------------------------------------------------------------------
(* SpecLogin: main's login run, from the profile selection to the end       *)

\* the stores of the runs: empty; DevProfile with a context, the registry
\* login and the dashboard; DevProfile with none of them
LoginStores ==
    {<<>>,
     DevProfile :> [ECRLogin |-> TRUE, ECRRegion |-> "", K8sContext |-> "ctx-c",
                    K9sAutoLaunch |-> TRUE],
     DevProfile :> [ECRLogin |-> FALSE, ECRRegion |-> "", K8sContext |-> "",
                    K9sAutoLaunch |-> FALSE]}

\* the legacy rule files of the runs: none, and one whose rule fits
\* DevProfile
LoginContextFiles ==
    {[ok |-> FALSE, mappings |-> <<>>],
     [ok |-> TRUE, mappings |-> <<[Pattern |-> <<"*", "G">>, Context |-> "ctx-a"]>>]}

InitLogin ==
    /\ pc = "main: SelectAWSProfile"
    /\ fancyConfig \in [ProfileConfigs : LoginStores,
                        Settings : [DefaultRegion : {"eu-central-1"}]]
    /\ config \in [UseK9S : BOOLEAN, DefaultRegion : {"eu-central-1"},
                   FancyVerbose : BOOLEAN, ForceAWSLogin : BOOLEAN]
    /\ environ = [AWS_REGION |-> "", AWS_PROFILE |-> <<>>]
    /\ contextFile \in LoginContextFiles
    /\ namespaceFile \in NamespaceFiles
    /\ awsProfile = <<>>
    /\ calls = <<>>
    /\ k8sContextResult = NoSummary
    /\ args = <<>>
    /\ result = <<>>
    /\ NoWizard
    /\ NoSpinner

NextLogin ==
    \/ SelectAWSProfile
    \/ HandleAWSLogin
    \/ SelectKubernetesContext
    \/ GetAccountID
    \/ HandleECRLogin
    \/ Summary
    \/ HandleK9sLaunch

SpecLogin == InitLogin /\ [][NextLogin]_vars

----------------------------------------------------------------------------
(* SpecRace: two wizard processes on one document, without locking          *)

\* the two processes
Procs == {"p1", "p2"}

\* the length of a file's content, counted in entries: one per profile and
\* one for the settings
RECURSIVE Size(_)
Size(file) ==
    IF file.kind = "yaml" THEN 1 + Cardinality(DOMAIN file.profile_configs)
    ELSE IF file.kind = "overlaid" THEN Size(file.tail)
    ELSE 0

\* f.Write(data) on a descriptor at offset 0, the file holding content: the
\* bytes of data replace the first bytes of the file, and what the file
\* holds beyond them stays
WriteAtStart(data, content) ==
    IF Size(data) >= Size(content) THEN data
    ELSE [kind |-> "overlaid", head |-> data, tail |-> content]

\* the entry a process configures for a profile
RaceProfileConfig(profile) ==
    [Name |-> profile, AccountID |-> "", ECRLogin |-> TRUE,
     ECRRegion |-> "eu-central-1", K8sContext |-> "",
     K9sAutoLaunch |-> FALSE, NamespacePrefix |-> ""]

\* the profiles the processes discover
RaceProfiles == {"dev", "prod"}

\* Run, up to the mode question: LoadFancyConfig, and the loaded document
\* kept (add new only, or override not confirmed) or dropped
ProcessLoads(p) ==
    /\ pc[p] = "LoadFancyConfig"
    /\ \E override \in BOOLEAN :
          LET loaded == LoadFancyConfig(cwd, files)
              asked == loaded.err = "nil" /\ MapKeys(loaded.config.ProfileConfigs) # {}
          IN  /\ wizard' = [wizard EXCEPT ![p] =
                     IF asked /\ ~override
                     THEN [config |-> loaded.config, addNewOnly |-> TRUE]
                     ELSE [config |-> DefaultFancyConfig, addNewOnly |-> FALSE]]
              /\ calls' = calls \o <<Call(p, "LoadFancyConfig", loaded.err, loaded.err = "nil")>>
    /\ pc' = [pc EXCEPT ![p] = "configureProfiles"]
    /\ UNCHANGED <<fancyConfig, config, environ, contextFile, namespaceFile,
                   awsProfile, k8sContextResult, args, result,
                   cwd, files, existingConfig, spinnerVars>>

\* configureProfiles and configureGlobalSettings: entries for some of the
\* discovered profiles (in add-new-only mode, of those not in the store)
ProcessConfigures(p) ==
    /\ pc[p] = "configureProfiles"
    /\ \E added \in SUBSET RaceProfiles :
          LET old == wizard[p].config.ProfileConfigs
              fresh == IF wizard[p].addNewOnly THEN added \ DOMAIN old ELSE added
          IN  wizard' = [wizard EXCEPT ![p].config =
                  [ProfileConfigs |-> [k \in DOMAIN old \cup fresh |->
                                          IF k \in fresh THEN RaceProfileConfig(k)
                                          ELSE old[k]],
                   Settings |-> [@.Settings EXCEPT !.ConfigWizardRun = TRUE]]]
    /\ pc' = [pc EXCEPT ![p] = "os.WriteFile: OpenFile"]
    /\ UNCHANGED <<fancyConfig, config, environ, contextFile, namespaceFile,
                   awsProfile, calls, k8sContextResult, args, result,
                   cwd, files, existingConfig, spinnerVars>>

\* saveConfiguration, first half: SaveFancyConfig resolves the path and
\* os.WriteFile opens the file with O_WRONLY|O_CREATE|O_TRUNC
ProcessOpensFile(p) ==
    /\ pc[p] = "os.WriteFile: OpenFile"
    /\ LET configPath == GetFancyConfigPath(cwd, files)
       IN  /\ files' = [files EXCEPT ![configPath] = EmptyFile]
           /\ calls' = calls \o <<Call(p, "os.OpenFile", configPath, TRUE)>>
    /\ pc' = [pc EXCEPT ![p] = "os.WriteFile: Write"]
    /\ UNCHANGED <<fancyConfig, config, environ, contextFile, namespaceFile,
                   awsProfile, k8sContextResult, args, result,
                   cwd, wizard, existingConfig, spinnerVars>>

\* the path process p opened
OpenedPath(p) ==
    LET i == CHOOSE i \in 1..Len(calls) : calls[i].by = p /\ calls[i].op = "os.OpenFile"
    IN  calls[i].arg

\* saveConfiguration, second half: os.WriteFile writes the marshalled
\* document through its descriptor and Run reports success
ProcessWrites(p) ==
    /\ pc[p] = "os.WriteFile: Write"
    /\ LET configPath == OpenedPath(p)
       IN  /\ files' = [files EXCEPT ![configPath] =
                            WriteAtStart(Marshal(wizard[p].config), @)]
           /\ calls' = calls \o <<Call(p, "Write", configPath, TRUE), Return(p, "nil")>>
    /\ pc' = [pc EXCEPT ![p] = "returned"]
    /\ UNCHANGED <<fancyConfig, config, environ, contextFile, namespaceFile,
                   awsProfile, k8sContextResult, args, result,
                   cwd, wizard, existingConfig, spinnerVars>>

\* the documents the processes find: none, and one with an entry for dev
RaceFiles ==
    {Absent,
     Marshal([ProfileConfigs |-> ("dev" :> RaceProfileConfig("dev")),
              Settings |-> [DefaultRegion |-> "eu-central-1", ConfigWizardRun |-> TRUE,
                            PreferLocalConfigs |-> TRUE]])}

InitRace ==
    /\ pc = [p \in Procs |-> "LoadFancyConfig"]
    /\ NoRun
    /\ args = <<>>
    /\ result = <<>>
    /\ cwd = HomeDir
    /\ files \in [{HomeDir} -> RaceFiles]
    /\ wizard = [p \in Procs |-> <<>>]
    /\ existingConfig = <<>>
    /\ NoSpinner

NextRace ==
    \E p \in Procs :
        \/ ProcessLoads(p)
        \/ ProcessConfigures(p)
        \/ ProcessOpensFile(p)
        \/ ProcessWrites(p)

SpecRace == InitRace /\ [][NextRace]_vars

----------------------------------------------------------------------------
(* ProfileSelector: the display strings of the profiles and the way back    *)
(* from a selected display string to a profile                              *)

\* unicode.IsSpace, for the characters of the display strings
IsSpace(c) == c \in {" ", "\t", "\n"}

\* strings.TrimSpace(s)
RECURSIVE TrimSpace(_)
TrimSpace(s) ==
    IF s = <<>> THEN s
    ELSE IF IsSpace(Head(s)) THEN TrimSpace(Tail(s))
    ELSE IF IsSpace(s[Len(s)]) THEN TrimSpace(SubSeq(s, 1, Len(s) - 1))
    ELSE s

\* the display string of a profile: the name of its ProfileConfig when it
\* has one, else the profile name, behind a star for an auto-launch profile
\* and behind two blanks otherwise
DisplayText(profileName, configName, isK9s) ==
    LET displayName == IF configName # <<>> THEN configName ELSE profileName
    IN  (IF isK9s THEN <<"*", " ">> ELSE <<" ", " ">>) \o displayName

\* the profile of the selected display string: the first entry of the list
\* whose display string, as it is or trimmed, is the selected string
RECURSIVE MatchSelection(_, _)
MatchSelection(displayProfiles, selectedDisplayText) ==
    IF displayProfiles = <<>> THEN [selectedProfile |-> <<>>, found |-> FALSE]
    ELSE LET p == Head(displayProfiles)
         IN  IF \/ p.DisplayText = selectedDisplayText
                \/ TrimSpace(p.DisplayText) = selectedDisplayText
             THEN [selectedProfile |-> p.Name, found |-> TRUE]
             ELSE MatchSelection(Tail(displayProfiles), selectedDisplayText)

----------------------------------------------------------------------------
(* SpecSelect: MatchSelection applied to bounded lists                      *)

\* the most entries of a list of display profiles
MaxDisplayProfiles == 2

\* the names of the AWS profiles
SelectableNames == {<<"a">>, <<"b">>, <<"c">>}

\* the names their ProfileConfigs give them: none, or a label
ConfigNames == {<<>>, <<"D">>}

\* the ProfileDisplayInfo entries of the lists
DisplayEntries ==
    {[Name |-> n, DisplayText |-> DisplayText(n, c, k),
      IsConfigured |-> c # <<>> \/ k] :
        n \in SelectableNames, c \in ConfigNames, k \in BOOLEAN}

\* the lists: every profile at most once
DisplayLists ==
    {l \in SeqsUpTo(DisplayEntries, MaxDisplayProfiles) :
        \A i, j \in 1..Len(l) : l[i].Name = l[j].Name => i = j}

\* what the selector can print: a display string as it is or trimmed, or
\* something else
SelectedTexts ==
    {e.DisplayText : e \in DisplayEntries}
    \cup {TrimSpace(e.DisplayText) : e \in DisplayEntries}
    \cup {<<"N", "o">>, <<>>}

InitSelect ==
    /\ pc = "call"
    /\ args \in [displayProfiles : DisplayLists, selectedDisplayText : SelectedTexts]
    /\ result = <<>>
    /\ NoRun
    /\ NoWizard
    /\ NoSpinner

CallMatchSelection ==
    /\ pc = "call"
    /\ result' = MatchSelection(args.displayProfiles, args.selectedDisplayText)
    /\ pc' = "returned"
    /\ UNCHANGED <<runVars, args, configVars, spinnerVars>>

NextSelect == CallMatchSelection

SpecSelect == InitSelect /\ [][NextSelect]_vars

----------------------------------------------------------------------------
(* SpecTables: SelectKubernetesContext for one profile under two namespace  *)
(* tables                                                                   *)

\* the first resolution is set aside and the namespace table is replaced by
\* the second one; SelectKubernetesContext is then called again
ResolveUnderOtherTable ==
    /\ pc = "HandleK9sLaunch"
    /\ result = <<>>
    /\ result' = [calls |-> calls, k8sContextResult |-> k8sContextResult,
                  namespaceFile |-> namespaceFile]
    /\ namespaceFile' = args.namespaceFile
    /\ calls' = <<>>
    /\ k8sContextResult' = NoSummary
    /\ pc' = "SelectKubernetesContext"
    /\ UNCHANGED <<fancyConfig, config, environ, contextFile, awsProfile, args,
                   configVars, spinnerVars>>

InitTables ==
    /\ pc = "SelectKubernetesContext"
    /\ fancyConfig \in [ProfileConfigs : LoginStores,
                        Settings : [DefaultRegion : {"eu-central-1"}]]
    /\ config = [UseK9S |-> FALSE, DefaultRegion |-> "eu-central-1",
                 FancyVerbose |-> FALSE, ForceAWSLogin |-> FALSE]
    /\ environ = [AWS_REGION |-> ""]
    /\ contextFile \in LoginContextFiles
    /\ namespaceFile \in NamespaceFiles
    /\ awsProfile \in RunProfiles
    /\ calls = <<>>
    /\ k8sContextResult = NoSummary
    /\ args \in [namespaceFile : NamespaceFiles]
    /\ result = <<>>
    /\ NoWizard
    /\ NoSpinner

NextTables == SelectKubernetesContext \/ ResolveUnderOtherTable

SpecTables == InitTables /\ [][NextTables]_vars

----------------------------------------------------------------------------
(* Properties                                                               *)

\* the positions of the log entries of operation op
CallsOf(op) == {i \in 1..Len(calls) : calls[i].op = op}

\* the handler by has returned
Returned(by) == \E i \in CallsOf("return") : calls[i].by = by

\* the handler by has returned without an error
ReturnedNil(by) == \E i \in CallsOf("return") : calls[i].by = by /\ calls[i].ok

\* the contexts the cluster CLI was asked to switch to
SwitchedTo == {calls[i].arg : i \in CallsOf("kubectl config use-context")}

\* no step of the legacy path or of interactive selection was taken
NoLegacyNoInteractive ==
    /\ CallsOf("LoadContextMappings") = {}
    /\ CallsOf("MatchesPattern") = {}
    /\ CallsOf("kubectl config get-contexts") = {}
    /\ CallsOf("fzf") = {}
    /\ CallsOf("kubectl config current-context") = {}

\* the store has a ProfileConfig for the selected profile
InStore == awsProfile \in DOMAIN fancyConfig.ProfileConfigs

\* the ProfileConfig of the selected profile
OwnConfig == fancyConfig.ProfileConfigs[awsProfile]

\* the wildcard reading of a pattern: `*` any run of characters, `?` any one
\* character, every other character only itself, over the whole string
RECURSIVE GlobMatch(_, _)
GlobMatch(s, pattern) ==
    IF pattern = <<>> THEN s = <<>>
    ELSE IF Head(pattern) = "*"
         THEN \E k \in 0..Len(s) : GlobMatch(Suffix(s, k + 1), Tail(pattern))
    ELSE /\ s # <<>>
         /\ Head(pattern) = "?" \/ Head(pattern) = Head(s)
         /\ GlobMatch(Tail(s), Tail(pattern))

\* the legacy rule file holds a rule that fits the selected profile
LegacyRuleFits ==
    /\ contextFile.ok
    /\ \E i \in 1..Len(contextFile.mappings) :
          GlobMatch(awsProfile, contextFile.mappings[i].Pattern)

\* C1: for a profile whose ProfileConfig has a non-empty k8sContext,
\* SelectKubernetesContext uses exactly that context (the one switch of the
\* run and the summary name it), whatever the legacy rule list contains,
\* and neither loads the rule list, nor calls MatchesPattern, nor starts
\* interactive selection.
C1_ConfiguredContextUsed ==
    (Returned("SelectKubernetesContext") /\ InStore /\ OwnConfig.K8sContext # "")
        => /\ SwitchedTo = {OwnConfig.K8sContext}
           /\ Cardinality(CallsOf("kubectl config use-context")) = 1
           /\ k8sContextResult.kind = "context"
           /\ k8sContextResult.context = OwnConfig.K8sContext
           /\ NoLegacyNoInteractive
           /\ ReturnedNil("SelectKubernetesContext")

\* a configured profile was resolved while a legacy rule for another context
\* fits its name
C1_Witness ==
    /\ pc = "HandleK9sLaunch"
    /\ InStore /\ OwnConfig.K8sContext = "ctx-c"
    /\ LegacyRuleFits
    /\ SwitchedTo = {"ctx-c"}

\* C2: for a profile that has a ProfileConfig with an empty k8sContext,
\* SelectKubernetesContext returns the "not configured for this profile"
\* state without error, switches to no context, and takes no step of legacy
\* matching or interactive selection, even when a legacy rule fits.
C2_EmptyContextSkips ==
    (Returned("SelectKubernetesContext") /\ InStore /\ OwnConfig.K8sContext = "")
        => /\ k8sContextResult = NotConfiguredSummary
           /\ ReturnedNil("SelectKubernetesContext")
           /\ SwitchedTo = {}
           /\ NoLegacyNoInteractive

\* a profile with an empty configured context was skipped although a legacy
\* rule fits its name
C2_Witness ==
    /\ pc = "HandleK9sLaunch"
    /\ InStore /\ OwnConfig.K8sContext = ""
    /\ LegacyRuleFits
    /\ k8sContextResult.kind = "not configured"

\* the rules of the loaded list whose pattern matches the selected profile,
\* in list order
FitsProfile(rule) == MatchesPattern(awsProfile, rule.Pattern)

MatchingRules == SelectSeq(LoadContextMappings(contextFile), FitsProfile)

\* C3: for a profile absent from the store, the context used is that of the
\* first rule in list order whose pattern matches the profile: it depends
\* only on the matching rules and their order, so later matching rules are
\* never used and rules that do not match change nothing.
C3_FirstLegacyMatchWins ==
    (Returned("SelectKubernetesContext") /\ ~InStore /\ MatchingRules # <<>>)
        => /\ SwitchedTo = {Head(MatchingRules).Context}
           /\ Cardinality(CallsOf("kubectl config use-context")) = 1
           /\ k8sContextResult.kind = "context"
           /\ k8sContextResult.context = Head(MatchingRules).Context
           /\ CallsOf("fzf") = {}

\* an unknown profile was resolved by the second rule of the list, the first
\* rule not matching, to a context other than the first rule's
C3_Witness ==
    /\ pc = "HandleK9sLaunch"
    /\ ~InStore
    /\ Len(contextFile.mappings) = 2
    /\ ~FitsProfile(contextFile.mappings[1])
    /\ FitsProfile(contextFile.mappings[2])
    /\ contextFile.mappings[1].Context # contextFile.mappings[2].Context
    /\ SwitchedTo = {contextFile.mappings[2].Context}

\* the position of the only entry of operation op
TheCall(op) == CHOOSE i \in CallsOf(op) : TRUE

\* C4: for a profile absent from the store that no legacy rule matches (or
\* whose rule file cannot be loaded): interactive selection comes first;
\* if it yields a context, that context is switched to and reported; if it
\* yields nothing, nothing is switched to and the current context is
\* queried and reported; if that query fails too, "none selected" is
\* reported.  No case returns an error.
C4_InteractiveThenCurrentThenNone ==
    (Returned("SelectKubernetesContext") /\ ~InStore /\ MatchingRules = <<>>)
        => /\ ReturnedNil("SelectKubernetesContext")
           /\ Cardinality(CallsOf("kubectl config get-contexts")) = 1
           /\ IF \E i \in CallsOf("fzf") : calls[i].ok
              THEN /\ SwitchedTo = {calls[TheCall("fzf")].arg}
                   /\ Cardinality(CallsOf("kubectl config use-context")) = 1
                   /\ k8sContextResult.kind = "context"
                   /\ k8sContextResult.context = calls[TheCall("fzf")].arg
                   /\ CallsOf("kubectl config current-context") = {}
              ELSE /\ SwitchedTo = {}
                   /\ Cardinality(CallsOf("kubectl config current-context")) = 1
                   /\ TheCall("kubectl config get-contexts")
                          < TheCall("kubectl config current-context")
                   /\ \A i \in CallsOf("fzf") :
                          i < TheCall("kubectl config current-context")
                   /\ LET query == calls[TheCall("kubectl config current-context")]
                      IN  IF query.ok
                          THEN /\ k8sContextResult.kind = "context"
                               /\ k8sContextResult.context = query.arg
                          ELSE k8sContextResult = NoneSelectedSummary

\* an unknown profile that no rule of a non-empty list matches, a timed-out
\* selection and a failed current-context query: "none selected"
C4_Witness ==
    /\ pc = "HandleK9sLaunch"
    /\ ~InStore
    /\ contextFile.ok /\ contextFile.mappings # <<>>
    /\ MatchingRules = <<>>
    /\ \E i \in CallsOf("fzf") : ~calls[i].ok
    /\ \E i \in CallsOf("kubectl config current-context") : ~calls[i].ok
    /\ k8sContextResult = NoneSelectedSummary

\* HandleK9sLaunch asked the operator about the dashboard or launched it
DashboardActedOn ==
    \E i \in 1..Len(calls) :
        \/ calls[i].by = "HandleK9sLaunch" /\ calls[i].op = "prompt"
        \/ calls[i].op = "k9s"

\* C5: the dashboard auto-launch is acted on only when a context was
\* resolved: after the skip state or a failed selection HandleK9sLaunch
\* neither prompts for nor launches k9s, whatever k9sAutoLaunch says.
C5_NoDashboardWithoutContext ==
    (pc = "done" /\ k8sContextResult.kind # "context") => ~DashboardActedOn

\* the positions of the calls HandleECRLogin made: its commands and its spinner
ECRLoginCalls ==
    {i \in 1..Len(calls) : calls[i].by = "HandleECRLogin" /\ calls[i].op # "return"}

\* the positions of the two commands of the registry login
RegistryCalls == CallsOf("aws ecr get-login-password") \cup CallsOf("docker login")

RECURSIVE FirstNonEmpty(_)
FirstNonEmpty(strs) ==
    IF strs = <<>> THEN ""
    ELSE IF Head(strs) # "" THEN Head(strs)
    ELSE FirstNonEmpty(Tail(strs))

\* C7 as stated: the region of the registry login of a profile with
\* ecrLogin = true is the profile's ecrRegion when non-empty, else
\* GlobalSettings.defaultRegion when non-empty, else empty.
C7_RegionFromStoreOrEmpty ==
    \A i \in RegistryCalls :
        calls[i].arg = FirstNonEmpty(<<OwnConfig.ECRRegion, fancyConfig.Settings.DefaultRegion>>)

\* C7 (amended): the region of the registry login is the profile's
\* ecrRegion when non-empty, else GlobalSettings.defaultRegion when
\* non-empty, else the AWS_REGION environment variable when non-empty, else
\* Config.DefaultRegion, and so is never empty; GetECRRegionForProfile by
\* itself gives ecrRegion, else defaultRegion, else the empty string, for
\* every profile of the store.
C7_RegionFallbackChain ==
    /\ \A i \in RegistryCalls :
          /\ calls[i].arg = FirstNonEmpty(<<OwnConfig.ECRRegion,
                                            fancyConfig.Settings.DefaultRegion,
                                            environ.AWS_REGION, config.DefaultRegion>>)
          /\ calls[i].arg # ""
    /\ \A p \in DOMAIN fancyConfig.ProfileConfigs :
          GetECRRegionForProfile(fancyConfig, p) =
              FirstNonEmpty(<<fancyConfig.ProfileConfigs[p].ECRRegion,
                              fancyConfig.Settings.DefaultRegion>>)

\* a registry login in the region of Config.DefaultRegion, neither the
\* profile, nor the settings, nor the environment naming a region
C7_Witness ==
    /\ pc = "done"
    /\ InStore /\ OwnConfig.ECRLogin /\ OwnConfig.ECRRegion = ""
    /\ fancyConfig.Settings.DefaultRegion = ""
    /\ environ.AWS_REGION = ""
    /\ \E i \in CallsOf("docker login") : calls[i].arg = config.DefaultRegion /\ calls[i].ok

\* C8: MatchesPattern(profile, pattern) is true exactly when the whole
\* profile matches the pattern read as a wildcard: `*` zero or more
\* characters, `?` exactly one, every other character only itself.
C8_WildcardReading ==
    pc = "returned" => (result.matched <=> GlobMatch(args.profile, args.pattern))

\* the pattern of the log entry i does not translate to a regular expression
Untranslatable(i) == ~RegexpCompiles(WildcardToRegex(calls[i].arg))

\* C9: MatchesPattern answers false for a pattern whose translation fails,
\* and raises nothing: the rule loop goes on to the next rule of the list
\* or, after the last rule, to interactive selection, and
\* SelectKubernetesContext returns without error.
C9_BadPatternIsNoMatch ==
    \A i \in CallsOf("MatchesPattern") :
        Untranslatable(i)
            => /\ ~calls[i].ok
               /\ i < Len(calls)
               /\ LET rule == i - 1
                      mappings == LoadContextMappings(contextFile)
                  IN  IF rule < Len(mappings)
                      THEN /\ calls[i + 1].op = "MatchesPattern"
                           /\ calls[i + 1].arg = mappings[rule + 1].Pattern
                      ELSE calls[i + 1].op = "kubectl config get-contexts"
               /\ ReturnedNil("SelectKubernetesContext")

\* the first rule of the list has an untranslatable pattern and the second
\* rule resolved the profile
C9_Witness ==
    /\ pc = "HandleK9sLaunch"
    /\ ~InStore
    /\ Len(contextFile.mappings) = 2
    /\ 2 \in CallsOf("MatchesPattern") /\ Untranslatable(2) /\ ~calls[2].ok
    /\ 3 \in CallsOf("MatchesPattern") /\ calls[3].ok
    /\ SwitchedTo = {contextFile.mappings[2].Context}

\* s cut at every "_"
RECURSIVE SplitUnderscore(_)
SplitUnderscore(s) ==
    IF \A k \in 1..Len(s) : s[k] # "_" THEN <<s>>
    ELSE LET k == CHOOSE j \in 1..Len(s) :
                     s[j] = "_" /\ \A h \in 1..(j - 1) : s[h] # "_"
         IN  <<SubSeq(s, 1, k - 1)>> \o SplitUnderscore(Suffix(s, k + 1))

\* a non-empty string of uppercase letters
IsUpperWord(w) == w # <<>> /\ \A k \in 1..Len(w) : IsUpper(w[k])

\* the shape CODE_ENV_DEVENG
HasDevengShape(profile) ==
    LET parts == SplitUnderscore(profile)
    IN  /\ Len(parts) = 3
        /\ IsUpperWord(parts[1])
        /\ IsUpperWord(parts[2])
        /\ parts[3] = <<"D", "E", "V", "E", "N", "G">>

\* C10: GetNamespaceFromProfile(profile, table) succeeds if and only if the
\* profile has the shape CODE_ENV_DEVENG and CODE is a key of the table;
\* the namespace is then lower(ENV) + "-" + table[CODE]; in every other
\* case it returns an error and no namespace (never one built on the raw
\* code).  ("OV_TEST_DEVENG", {OV: overviews}) gives "test-overviews";
\* ("OV_TEST_DEVENG", {}) and ("OV_TEST", any table) fail.
C10_NamespaceDerivation ==
    pc = "returned"
        => LET parts == SplitUnderscore(args.profile)
               table == args.namespaceMappings
           IN  /\ IF HasDevengShape(args.profile) /\ parts[1] \in DOMAIN table
                  THEN /\ result.err = "nil"
                       /\ result.namespace = ToLower(parts[2]) \o <<"-">> \o table[parts[1]]
                  ELSE /\ result.err # "nil"
                       /\ result.namespace = <<>>
               /\ (args.profile = OvTestDeveng /\ <<"O", "V">> \in DOMAIN table
                       /\ table[<<"O", "V">>] = Overviews)
                      => (result.err = "nil" /\ result.namespace = TestOverviews)
               /\ (args.profile = OvTestDeveng /\ table = <<>>) => result.err # "nil"
               /\ args.profile = OvTest => result.err # "nil"

\* "OV_TEST_DEVENG" was resolved to "test-overviews"
C10_Witness ==
    /\ pc = "returned"
    /\ args.profile = OvTestDeveng
    /\ result.err = "nil"
    /\ result.namespace = TestOverviews

----------------------------------------------------------------------------
(* The configuration document                                               *)

\* the document a call made now resolves: the one of the working directory
\* if there is one, else the one of the home directory
DocumentNow == IF files[cwd] # Absent THEN cwd ELSE HomeDir

C13_RoundTripIdempotent ==
    pc = "done" =>
        /\ result.second = result.first
        /\ MapKeys(result.loaded.ProfileConfigs) = MapKeys(args.config.ProfileConfigs)
        /\ \A k \in MapKeys(args.config.ProfileConfigs) :
               result.loaded.ProfileConfigs[k] = args.config.ProfileConfigs[k]
        /\ result.loaded.Settings = args.config.Settings

\* a configuration whose entry has empty and false fields under a key that
\* is not its name went round
C13_Witness ==
    /\ pc = "done"
    /\ "dev" \in MapKeys(args.config.ProfileConfigs)
    /\ args.config.ProfileConfigs["dev"].Name = "other"
    /\ args.config.ProfileConfigs["dev"].AccountID = ""
    /\ ~args.config.ProfileConfigs["dev"].ECRLogin
    /\ args.config.Settings.DefaultRegion = ""

----------------------------------------------------------------------------
(* The configuration wizard                                                 *)

\* the loads of the document that failed to parse it
ParseErrors ==
    {i \in 1..Len(calls) : /\ calls[i].op = "LoadFancyConfig"
                           /\ calls[i].arg = "failed to parse config file"}

\* C11: a document that exists and cannot be parsed makes every operation
\* that loads it (main before the login run, RunConfigWizardIfNeeded, the
\* wizard run of --config) return the parse error and the program stop: none
\* goes on with the default configuration and none overwrites the document
C11_ParseErrorAborts ==
    ParseErrors # {} =>
        /\ pc = "exit 1"
        /\ \A i \in ParseErrors : /\ calls[i + 1].op = "return"
                                  /\ calls[i + 1].arg = calls[i].arg
        /\ files[HomeDir] = Malformed

\* a wizard run is in add-new-only mode
InAddNewOnlyMode == wizard # <<>> /\ wizard.addNewOnly

\* the store Run loaded when it started
LoadedStore == existingConfig.config.ProfileConfigs

\* the names of the profiles discovered
DiscoveredNames == {wizard.awsProfiles[j].Name : j \in 1..Len(wizard.awsProfiles)}

\* the lines the operator was asked for about a profile
ProfilePrompts == {i \in 1..Len(calls) : calls[i].op = "prompt" /\ calls[i].profile # ""}

\* the wizard wrote the document
DocumentWritten ==
    \E i \in 1..Len(calls) : calls[i].op = "os.WriteFile" /\ calls[i].ok

\* C14: in add-new-only mode every ProfileConfig of the store loaded at the
\* start stays in the working store unchanged in every field, and is written
\* so when the document is written, whatever is answered for other profiles
\* and whether or not it was discovered; the operator is asked only about
\* discovered profiles that the loaded store does not hold
C14_AddNewOnlyKeepsExisting ==
    InAddNewOnlyMode =>
        /\ \A k \in MapKeys(LoadedStore) :
               /\ k \in MapKeys(wizard.config.ProfileConfigs)
               /\ wizard.config.ProfileConfigs[k] = LoadedStore[k]
               /\ DocumentWritten =>
                      /\ k \in DOMAIN files[HomeDir].profile_configs
                      /\ files[HomeDir].profile_configs[k] = MarshalProfileConfig(LoadedStore[k])
        /\ \A i \in ProfilePrompts :
               /\ calls[i].profile \in DiscoveredNames
               /\ calls[i].profile \notin MapKeys(LoadedStore)

\* an add-new-only run ended with success: dev was in the store and was
\* discovered, prod was discovered and new and got an entry
C14_Witness ==
    /\ InAddNewOnlyMode
    /\ pc = "exit 0"
    /\ MapKeys(LoadedStore) = {"dev"}
    /\ wizard.awsProfiles = <<DevAWSProfile, ProdAWSProfile>>
    /\ DocumentWritten
    /\ "prod" \in DOMAIN files[HomeDir].profile_configs
    /\ files[HomeDir].profile_configs["prod"].k8s_context = "ctx-1"

\* the lines typed at a prompt of Run, in order
AnswersTo(prompt) ==
    LET at == SelectSeq(calls, LAMBDA c : c.op = "prompt" /\ c.arg = prompt)
    IN  [i \in 1..Len(at) |-> at[i].answer]

\* Run loaded a store that holds profiles
LoadedNonEmptyStore ==
    /\ existingConfig # <<>>
    /\ existingConfig.err = "nil"
    /\ MapKeys(LoadedStore) # {}

\* the operator chose "1" and confirmed with a line that begins with y or Y
OverrideConfirmed ==
    /\ AnswersTo("Choice") = <<(<<"1">>)>>
    /\ Len(AnswersTo("Are you sure")) = 1
    /\ AnswersTo("Are you sure")[1] # <<>>
    /\ AnswersTo("Are you sure")[1][1] \in {"y", "Y"}

\* C15: when the loaded store holds profiles, the wizard overrides all only
\* if the operator chose "1" and then confirmed with a line beginning with y
\* or Y; every other line at either question puts it in add-new-only mode
\* with the loaded store as its working configuration; when the loaded store
\* is empty the mode is not asked for
C15_OverrideOnlyWhenConfirmed ==
    existingConfig # <<>> =>
        /\ Len(AnswersTo("Choice")) = (IF LoadedNonEmptyStore THEN 1 ELSE 0)
        /\ LoadedNonEmptyStore =>
               /\ wizard.addNewOnly <=> ~OverrideConfirmed
               /\ pc = "discoverConfigurations" =>
                      wizard.config = (IF OverrideConfirmed THEN DefaultFancyConfig
                                       ELSE existingConfig.config)
        /\ ~LoadedNonEmptyStore => ~wizard.addNewOnly

\* the operator chose "1" and confirmed: the wizard overrides all
C15_Witness ==
    /\ LoadedNonEmptyStore
    /\ OverrideConfirmed
    /\ ~wizard.addNewOnly
    /\ pc = "discoverConfigurations"

\* the entries a step adds to the log
Added == SubSeq(calls', Len(calls) + 1, Len(calls'))

\* the step calls os.WriteFile
WriteAttempted == \E i \in 1..Len(Added) : Added[i].op = "os.WriteFile"

\* the step reads a line at the save confirmation that declines: it begins
\* with n or N
DeclinedNow ==
    \E i \in 1..Len(Added) : /\ Added[i].op = "prompt"
                             /\ Added[i].arg = "Proceed"
                             /\ Added[i].answer # <<>>
                             /\ Added[i].answer[1] \in {"n", "N"}

\* Run returns an error in the step
RunFailedNow ==
    \E i \in 1..Len(Added) : /\ Added[i].by = "Run"
                             /\ Added[i].op = "return"
                             /\ ~Added[i].ok

\* success was reported
SuccessReported == \E i \in 1..Len(calls) : calls[i].op = "print"

\* the document is written at most once, in saveConfiguration, after a
\* confirmation that does not decline; a declined confirmation and a failed
\* save make Run return an error without a report of success
SavedOnceWhenConfirmed ==
    /\ (files' # files \/ WriteAttempted) =>
           /\ pc = "saveConfiguration"
           /\ \A i \in 1..Len(calls) : calls[i].op # "os.WriteFile"
           /\ \E i \in 1..Len(Added) : Added[i].op = "prompt" /\ Added[i].arg = "Proceed"
           /\ ~DeclinedNow
    /\ DeclinedNow => RunFailedNow
    /\ (pc = "saveConfiguration"
            /\ ~\E i \in 1..Len(Added) : Added[i].op = "os.WriteFile" /\ Added[i].ok) =>
           RunFailedNow
    /\ RunFailedNow => (pc' = "exit 1" /\ ~SuccessReported')

\* C16 as claimed: the document is written at most once, in the Persist
\* stage, after a confirmation that does not decline; when the confirmation
\* is declined or the write fails, Run returns an error, reports no success
\* and leaves the document exactly as it was
C16_FailedSaveLeavesDocument ==
    [][SavedOnceWhenConfirmed /\ (RunFailedNow => files' = files)]_vars

\* C16 as amended: a declined confirmation leaves the document exactly as it
\* was; a failed save leaves it as it was or, when the write fails after the
\* file was opened, empty or cut short
C16_SaveOnceAfterConfirmation ==
    [][/\ SavedOnceWhenConfirmed
       /\ DeclinedNow => files' = files
       /\ RunFailedNow => files'[HomeDir] \in {files[HomeDir], EmptyFile, Malformed}]_vars

\* the operator declined the save of a run that had configured prod: Run
\* failed and there is still no document
C16_Witness ==
    /\ pc = "exit 1"
    /\ \E i \in 1..Len(calls) : /\ calls[i].op = "prompt"
                                /\ calls[i].arg = "Proceed"
                                /\ calls[i].answer = <<"N", "o">>
    /\ "prod" \in MapKeys(wizard.config.ProfileConfigs)
    /\ files[HomeDir] = Absent
    /\ ~SuccessReported

\* the stage of the wizard a position of the program belongs to: 0 before a
\* run, 1 DiscoverExisting, 2 ShowDiscovered, 3 ConfigureProfiles,
\* 4 ConfigureGlobals, 5 Persist, 6 when the run is over
Stage(position) ==
    CASE position \in {"main", "RunConfigWizardIfNeeded"} -> 0
      [] position \in {"LoadFancyConfig", "discoverConfigurations"} -> 1
      [] position = "showDiscoveredConfigurations" -> 2
      [] position \in {"configureProfiles", "configureProfiles: for"} -> 3
      [] position = "configureGlobalSettings" -> 4
      [] position = "saveConfiguration" -> 5
      [] OTHER -> 6

\* C17: a wizard run goes through DiscoverExisting, ShowDiscovered,
\* ConfigureProfiles, ConfigureGlobals and Persist in this order: every step
\* stays in its stage, enters the next one or ends the run, so no stage is
\* entered twice or after a later one; Persist is entered only from
\* ConfigureGlobals, when the global settings are configured; a run that is
\* over enters no stage
C17_StagesInOrder ==
    [][/\ \/ Stage(pc') = Stage(pc)
          \/ Stage(pc') = Stage(pc) + 1
          \/ Stage(pc') = 6
       /\ Stage(pc') = 5 =>
              /\ Stage(pc) = 4
              /\ wizard'.config.Settings.ConfigWizardRun
       /\ \A i \in 1..Len(Added) :
              Added[i].op = "prompt" =>
                  /\ Added[i].arg \in {"Choice", "Are you sure"} => Stage(pc) = 1
                  /\ Added[i].profile # "" => Stage(pc) = 3
                  /\ Added[i].arg = "Default AWS region" => Stage(pc) = 4
                  /\ Added[i].arg = "Proceed" => Stage(pc) = 5]_vars

\* a run went through the five stages: the mode, a profile, the default
\* region and the save were asked for, in this order, and Run returned nil
C17_Witness ==
    /\ pc = "exit 0"
    /\ \E i, j, k, l \in 1..Len(calls) :
          /\ i < j /\ j < k /\ k < l
          /\ calls[i].op = "prompt" /\ calls[i].arg = "Choice"
          /\ calls[j].op = "prompt" /\ calls[j].arg = "Configure this profile"
          /\ calls[k].op = "prompt" /\ calls[k].arg = "Default AWS region"
          /\ calls[l].op = "prompt" /\ calls[l].arg = "Proceed"

\* the four prompts of a profile that the claim names, as they were asked
NamedPrompts ==
    SelectSeq([i \in 1..Len(result.prompts) |-> result.prompts[i].arg],
              LAMBDA prompt : prompt # "K9s namespace")

\* every prompt was answered with the empty line
AllEmptyInput ==
    \A i \in 1..Len(result.prompts) :
        IF result.prompts[i].arg \in {"ECR region", "K9s namespace"}
        THEN result.prompts[i].answer = ""
        ELSE result.prompts[i].answer = <<>>

Created ==
    {calls[i].profile : i \in {j \in 1..Len(calls) : /\ calls[j].op = "prompt"
                                                    /\ calls[j].arg = "ECR login"}}

\* the last line typed at the context prompt for a profile, <<"0">> if the
\* prompt was not asked
ContextAnswer(profile) ==
    LET at == SelectSeq(calls, LAMBDA c : /\ c.op = "prompt"
                                          /\ c.arg = "Kubernetes context"
                                          /\ c.profile = profile)
    IN  IF at = <<>> THEN <<"0">> ELSE at[Len(at)].answer

\* C19: every ProfileConfig a wizard run creates, in either mode and whatever
\* is typed, has auto-launch only with a context, and has as context the
\* empty string or the name of a discovered context: a line that is no number
\* or a number beyond the list leaves it empty
C19_CreatedConfigsConsistent ==
    (wizard # <<>>) =>
        \A k \in Created :
            LET c == wizard.config.ProfileConfigs[k]
                n == Atoi(ContextAnswer(k))
            IN  /\ c.K9sAutoLaunch => c.K8sContext # ""
                /\ c.K8sContext # "" =>
                       \E j \in 1..Len(wizard.k8sContexts) :
                           wizard.k8sContexts[j] = c.K8sContext
                /\ (~n.ok \/ n.n > Len(wizard.k8sContexts)) => c.K8sContext = ""

\* a run created dev with a number beyond the list, so without context, and
\* prod with the first context and auto-launch
C19_Witness ==
    /\ wizard # <<>>
    /\ Created = {"dev", "prod"}
    /\ ContextAnswer("dev") = <<"2">>
    /\ wizard.config.ProfileConfigs["dev"].K8sContext = ""
    /\ wizard.config.ProfileConfigs["prod"].K8sContext = "ctx-1"
    /\ wizard.config.ProfileConfigs["prod"].K9sAutoLaunch

----------------------------------------------------------------------------
(* The spinner                                                              *)

\* C20: in every interleaving of the goroutine with the thread that calls
\* Stop, nothing is written to the terminal after Stop has returned: the
\* clearing of the line, which Stop writes last, stays the last write
C20_NoWriteAfterStop ==
    \A i \in 1..Len(terminal) : terminal[i] = "clear" => i = Len(terminal)

\* the failures of an interactive selection that ran into the bounded wait
SelectionTimeouts ==
    {"profile selection timed out after 60 seconds",
     "context selection timed out after 60 seconds"}

\* the handler main called for the selection of the log entry i
SelectionHandler(i) ==
    IF calls[i].by = "SelectAWSProfile" THEN "SelectAWSProfile"
    ELSE "SelectKubernetesContext"

\* C21: an interactive selection (AWS profile or Kubernetes context) that
\* exceeds the bounded wait is reported to the caller as a timeout failure:
\* the handler returns the timeout error, which no cancelled or empty
\* selection returns, so that the two cases never end in the same reported
\* result.
C21_TimeoutReportedAsFailure ==
    \A i \in CallsOf("fzf") :
        (~calls[i].ok /\ calls[i].arg \in SelectionTimeouts)
            => \A j \in CallsOf("return") :
                  (j > i /\ calls[j].by = SelectionHandler(i))
                      => calls[j].arg = calls[i].arg

\* C22: no operation of the core terminates the process: every failure is
\* returned to the caller and only main calls os.Exit.
C22_OnlyMainExits ==
    \A i \in CallsOf("os.Exit") : calls[i].by = "main"

\* the process whose write came last
LastWriter == calls[Len(calls)].by

\* C23: of two wizard processes that run against one document without
\* locking, the last writer wins in every interleaving of their loads and
\* saves: once both have saved, the durable document is exactly the whole
\* in-memory document of the process that wrote last, never a mixture of
\* the two writes (entries only the earlier writer added may be lost).
C23_LastWriterWins ==
    (\A p \in Procs : pc[p] = "returned")
        => files[HomeDir] = Marshal(wizard[LastWriter].config)

\* the entries of the list whose display string, as it is or trimmed, is
\* the selected string
Selectable ==
    {i \in 1..Len(args.displayProfiles) :
        \/ args.displayProfiles[i].DisplayText = args.selectedDisplayText
        \/ TrimSpace(args.displayProfiles[i].DisplayText) = args.selectedDisplayText}

\* C24: for every list of ProfileDisplayInfo entries and every entry p of
\* it, selecting p's display text (as it is, or trimmed as the selector
\* prints it) maps back to p's stable name; a selected string that is no
\* entry's display text maps to not-found; and what is returned is always a
\* stable name of the list, never a display string.
C24_SelectionMapsBackToName ==
    pc = "returned"
        => /\ \A i \in Selectable :
                 /\ result.found
                 /\ result.selectedProfile = args.displayProfiles[i].Name
           /\ Selectable = {} => ~result.found
           /\ result.found =>
                 \E i \in 1..Len(args.displayProfiles) :
                     result.selectedProfile = args.displayProfiles[i].Name

\* both resolutions of SpecTables have returned
BothResolved == pc = "HandleK9sLaunch" /\ result # <<>>

\* an entry of the log is an answer of a collaborator of the resolution
IsAnswer(e) ==
    e.op \in {"kubectl config get-contexts", "fzf",
              "kubectl config current-context", "kubectl config use-context"}

\* what the collaborators answered in a log: the listing, the selection,
\* the current context, and whether a switch succeeded
Answers(log) ==
    LET answers == SelectSeq(log, IsAnswer)
    IN  [i \in 1..Len(answers) |->
            IF answers[i].op = "kubectl config use-context"
            THEN [op |-> answers[i].op, ok |-> answers[i].ok]
            ELSE answers[i]]

\* a summary without its "(ns: ...)" annotation
WithoutNamespace(summary) == [kind |-> summary.kind, context |-> summary.context]

\* C25: the context SelectKubernetesContext chooses and switches to for a
\* profile is the same under any two namespace tables (a missing or
\* unreadable table included): the collaborators answering alike, the two
\* resolutions make the same calls and name the same context, and neither
\* returns an error; only the "(ns: ...)" annotation of the summary differs.
C25_ContextIndependentOfNamespace ==
    BothResolved
        => /\ result.calls[Len(result.calls)] = Return("SelectKubernetesContext", "nil")
           /\ calls[Len(calls)] = Return("SelectKubernetesContext", "nil")
           /\ Answers(result.calls) = Answers(calls)
                 => /\ result.calls = calls
                    /\ WithoutNamespace(result.k8sContextResult)
                           = WithoutNamespace(k8sContextResult)

\* a profile resolved to the same context under a table that yields its
\* namespace and under an unreadable table, the switch made both times
C25_Witness ==
    /\ BothResolved
    /\ result.k8sContextResult.hasNamespace
    /\ ~namespaceFile.ok
    /\ ~k8sContextResult.hasNamespace
    /\ k8sContextResult.kind = "context"
    /\ k8sContextResult.context = result.k8sContextResult.context
    /\ SwitchedTo # {}
    /\ result.calls = calls

\* the positions at which RunConfigWizardIfNeeded asked its question
UpdateQuestions ==
    {i \in 1..Len(calls) : /\ calls[i].op = "prompt"
                           /\ calls[i].arg = "Run configuration wizard"}

\* C26: RunConfigWizardIfNeeded runs the wizard exactly when wizardCompleted
\* is false and either no configuration file exists (then without asking)
\* or the operator answers yes to "Run configuration wizard to update
\* settings? [y/N]"; when wizardCompleted is true the wizard is not run; on
\* empty input to the question the default No is taken: the function
\* returns without error and without running the wizard.
C26_WizardRunsOnlyWhenNeeded ==
    /\ \A i \in UpdateQuestions :
          IF StartsWith(calls[i].answer, "y")
          THEN \/ i = Len(calls) /\ pc = RunSteps[1]
               \/ i < Len(calls) /\ calls[i + 1].by = "Run"
          ELSE /\ i < Len(calls)
               /\ calls[i + 1] = Return("RunConfigWizardIfNeeded", "nil")
    /\ (~args.configFlag /\ existingConfig # <<>> /\ existingConfig.err = "nil")
          => /\ ~existingConfig.config.Settings.ConfigWizardRun
             /\ (\A i \in 1..Len(calls) : calls[i].op # "os.WriteFile")
                   => (UpdateQuestions = {} <=> files[HomeDir].kind = "absent")
    /\ pc # "panic"

\* the names of the profiles the operator configured in this run: those
\* not skipped at "Configure this profile?"
ConfiguredInRun ==
    {calls[i].profile :
        i \in {j \in 1..Len(calls) : /\ calls[j].op = "prompt"
                                     /\ calls[j].arg = "Configure this profile"
                                     /\ ~StartsWith(calls[j].answer, "n")}}

\* C30: in confirmed override-all mode the document persisted at the end of
\* the run holds a ProfileConfig for exactly the profiles the operator
\* configured in this run: every entry stored before for a profile that the
\* operator skips at "Configure this profile?" or that is not among the
\* discovered profiles is absent after the write.
C30_OverrideAllDropsOtherEntries ==
    (LoadedNonEmptyStore /\ OverrideConfirmed /\ DocumentWritten)
        => /\ DOMAIN files[HomeDir].profile_configs = ConfiguredInRun
           /\ \A k \in MapKeys(LoadedStore) \ ConfiguredInRun :
                  k \notin DOMAIN files[HomeDir].profile_configs

\* an override-all run wrote the document: dev and prod were stored, only
\* dev was discovered and the operator skipped it, and the document holds
\* no profile
C30_Witness ==
    /\ LoadedNonEmptyStore /\ OverrideConfirmed /\ DocumentWritten
    /\ MapKeys(LoadedStore) = {"dev", "prod"}
    /\ wizard.awsProfiles = <<DevAWSProfile>>
    /\ ConfiguredInRun = {}
    /\ DOMAIN files[HomeDir].profile_configs = {}
    /\ pc = "exit 0"

\* the switches that failed for a context taken from the store or from a
\* legacy rule: no interactive selection came before them
FailedMappedSwitches ==
    {i \in CallsOf("kubectl config use-context") :
        /\ ~calls[i].ok
        /\ \A j \in 1..i : calls[j].by # "selectContextWithFzf"}

\* the summaries main printed
Summaries == {calls[i].arg : i \in CallsOf("Fancy Login Summary")}

\* C27: when the switch to a configured or legacy-mapped context fails,
\* SelectKubernetesContext still returns a summary naming that context and
\* no error, and attempts no further fallback (legacy matching, interactive
\* selection, current-context query); the run then goes on to the ECR login
\* and the dashboard launch as it does after a successful switch.
C27_FailedSwitchIsNotAnError ==
    \A i \in FailedMappedSwitches :
        /\ i < Len(calls)
        /\ calls[i + 1] = Return("SelectKubernetesContext", "nil")
        /\ k8sContextResult.kind = "context"
        /\ k8sContextResult.context = calls[i].arg
        /\ CallsOf("kubectl config use-context") = {i}
        /\ \A j \in 1..Len(calls) :
              /\ calls[j].by \notin {"selectContextWithFzf", "getCurrentContextSummary"}
              /\ j > i => calls[j].op \notin {"LoadContextMappings", "MatchesPattern"}
        /\ GetK8sContextForProfile(fancyConfig, awsProfile) # ""
              => /\ calls[i].arg = GetK8sContextForProfile(fancyConfig, awsProfile)
                 /\ CallsOf("LoadContextMappings") = {}
                 /\ CallsOf("MatchesPattern") = {}
        /\ pc # "exit 1"
        /\ CallsOf("os.Exit") = {}
        /\ pc = "main: completed"
              => /\ Returned("HandleECRLogin")
                 /\ Returned("HandleK9sLaunch")
                 /\ \A s \in Summaries : s.context.context = calls[i].arg
                 /\ (ShouldPerformECRLogin(fancyConfig, awsProfile)
                        /\ \E j \in CallsOf("aws sts get-caller-identity") :
                              calls[j].by = "HandleECRLogin" /\ calls[j].ok)
                       => CallsOf("aws ecr get-login-password") # {}
                 /\ (ShouldAutoLaunchK9s(fancyConfig, awsProfile) /\ config.UseK9S
                        /\ namespaceFile.ok
                        /\ GetNamespaceFromProfile(awsProfile, namespaceFile.mappings).err = "nil")
                       => CallsOf("k9s") # {}

\* a run ended after the switch to the configured context failed: the
\* registry login succeeded and the dashboard was launched
C27_Witness ==
    /\ pc = "main: completed"
    /\ \E i \in FailedMappedSwitches : calls[i].arg = "ctx-c"
    /\ \E j \in CallsOf("docker login") : calls[j].ok
    /\ CallsOf("k9s") # {}
    /\ \E s \in Summaries : s.context.context = "ctx-c"

\* the functions that show a spinner
SpinnerHandlers == {"HandleECRLogin", "performSSOMLogin"}

\* the positions of the log at which handler h started a spinner, stopped
\* one, and ended (returned or terminated the process)
Starts(h) == {i \in CallsOf("Spinner.Start") : calls[i].by = h}

Stops(h) == {i \in CallsOf("Spinner.Stop") : calls[i].by = h}

Ends(h) == {i \in CallsOf("return") \cup CallsOf("os.Exit") : calls[i].by = h}

\* C28: every spinner started by HandleECRLogin or performSSOMLogin is
\* stopped before the function returns or terminates the process, on every
\* path; a spinner is never stopped without having been started, and never
\* started in verbose mode.
C28_SpinnerStartedIsStopped ==
    /\ \A h \in SpinnerHandlers :
          /\ \A i \in Starts(h) :
                \E j \in Stops(h) :
                   /\ i < j
                   /\ \A k \in Ends(h) \cup Starts(h) : ~(i < k /\ k < j)
          /\ \A j \in Stops(h) :
                \E i \in Starts(h) :
                   /\ i < j
                   /\ \A k \in Stops(h) : ~(i < k /\ k < j)
          /\ Cardinality(Starts(h)) = Cardinality(Stops(h))
    /\ config.FancyVerbose
          => /\ CallsOf("Spinner.Start") = {}
             /\ CallsOf("Spinner.Stop") = {}

\* the SSO login failed under its spinner and the process was terminated
\* after the spinner was stopped
C28_Witness ==
    /\ pc = "exit 1"
    /\ Starts("performSSOMLogin") # {}
    /\ \E i \in CallsOf("aws sso login") : ~calls[i].ok
    /\ \E j \in Stops("performSSOMLogin"), k \in Ends("performSSOMLogin") :
          j < k /\ calls[k].op = "os.Exit"

\* the steps of a login run, each as the entry of the log that closes it
StepEntries ==
    <<[by |-> "SelectAWSProfile", op |-> "return"],
      [by |-> "HandleAWSLogin", op |-> "return"],
      [by |-> "SelectKubernetesContext", op |-> "return"],
      [by |-> "HandleECRLogin", op |-> "return"],
      [by |-> "main", op |-> "Fancy Login Summary"],
      [by |-> "HandleK9sLaunch", op |-> "return"]>>

\* the positions of the log at which step n was closed
Closed(n) ==
    {i \in 1..Len(calls) : /\ calls[i].by = StepEntries[n].by
                           /\ calls[i].op = StepEntries[n].op}

\* the positions of the log at which a context was switched, a registry
\* command was run, or the dashboard was started
LaterWork ==
    CallsOf("kubectl config use-context") \cup RegistryCalls \cup CallsOf("k9s")

\* C29: in a login run the steps occur in the order profile selection, AWS
\* login handling, Kubernetes context resolution, ECR login, summary,
\* dashboard launch; no context switch, ECR login or dashboard launch
\* happens in a run in which profile selection or AWS login handling
\* failed; a failed context resolution or a failed ECR login does not
\* prevent the later steps.
C29_StepsInOrder ==
    /\ \A n \in 1..Len(StepEntries) :
          /\ Cardinality(Closed(n)) <= 1
          /\ \A m \in 1..(n - 1) :
                Closed(n) # {}
                   => /\ Closed(m) # {} \/ (m = 5 /\ config.FancyVerbose)
                      /\ \A i \in Closed(n), j \in Closed(m) : j < i
    /\ \A i \in CallsOf("kubectl config use-context") :
          \E j \in Closed(2) : j < i /\ calls[j].ok /\ \A k \in Closed(3) : i < k
    /\ \A i \in RegistryCalls :
          \E j \in Closed(3) : j < i /\ \A k \in Closed(4) : i < k
    /\ \A i \in CallsOf("k9s") :
          /\ \E j \in Closed(4) : j < i
          /\ ~config.FancyVerbose => \E j \in Closed(5) : j < i
    /\ (\/ pc = "exit 1"
        \/ CallsOf("os.Exit") # {}
        \/ \E i \in Closed(1) \cup Closed(2) : ~calls[i].ok)
          => /\ LaterWork = {}
             /\ Closed(3) \cup Closed(4) \cup Closed(5) \cup Closed(6) = {}
             /\ pc = "exit 1"
    /\ (\E i \in Closed(2) : calls[i].ok) => pc # "exit 1"
    /\ pc = "main: completed"
          => /\ \A n \in 1..Len(StepEntries) :
                   Closed(n) # {} \/ (n = 5 /\ config.FancyVerbose)
             /\ ~config.FancyVerbose => Closed(5) # {}

\* a run ended in which the context switch and the registry login
\* failed: the summary reported the failure and the dashboard was started
C29_Witness ==
    /\ pc = "main: completed"
    /\ \E i \in CallsOf("kubectl config use-context") : ~calls[i].ok
    /\ \E i \in Closed(4) : ~calls[i].ok
    /\ \E s \in Summaries : s.ecr = "ECR login: failed"
    /\ CallsOf("k9s") # {}

====
